---- MODULE Spec2Model ----
(***************************************************************************)
(* State-machine model of the Slack relay (src/SlackBot.ts): the output    *)
(* flush scheduler, the thread correlation router with its correlated      *)
(* channels, and the agent event correlator.                               *)
(*                                                                         *)
(* JavaScript runs one task at a time, so every action below is the code   *)
(* between two suspension points (await / timer / inbound event).          *)
(***************************************************************************)
EXTENDS Integers, Sequences, FiniteSets, TLC

\* ------------------------------------------------------------------ bounds
\* MAX_MESSAGE_LENGTH is 3900 in the source (src/SlackBot.ts:273); texts are
\* modelled as character sequences, so the limit is scaled down.
MAX_MESSAGE_LENGTH == 2
\* Longest total text recorded for destination D1, and for every other destination.
MaxRecorded == 4
MaxRecordedOther == 1
\* Clock granularity, start of the clock (Date.now() is far above 250) and how
\* far the clock may run.
TickMs == 125
EpochMs == 1000
HorizonMs == 375
\* Minimum interval between flush cycles (src/SlackBot.ts:278).
SEND_INTERVAL_MS == 250

\* send() calls, inbound messages that are not discarded, and the output
\* events the agents emit.
MaxSends == 2
MaxInbound == 2
MaxEvents == 2

Dests == {"D1", "D2"}
Chans == {"c1", "c2"}
Users == {"U1", "U2"}
Reqs == {"R1", "R2"}
Fragments == {<<"a">>, <<"b", "c">>}
Procs == {"cycle", "stop"}
Outcomes == {"ok", "error", "message_not_found"}

\* ----------------------------------------------------------------- helpers
None == <<>>
Some(x) == <<x>>
IsSome(o) == o # <<>>
Get(o) == o[1]
Range(s) == {s[i] : i \in 1..Len(s)}
Max(a, b) == IF a >= b THEN a ELSE b

VARIABLES
  now,                  \* Date.now()
  chatBuffers,          \* destination -> None | Some(ChatBuffer)
  pendingChannelIds,    \* insertion-ordered Set<string>
  sendTimer,            \* None | Some([at, live])
  isProcessing,
  lastSendTime,
  messageIdToBotUserId, \* message id <<channel, ts>> -> bot user id
  pc,                   \* position of processPending ("cycle") and stop()
  todo,                 \* per process: the rest of its channelIds snapshot
  frame,                \* per process: the flushBuffer call suspended on the transport
  messages,             \* transport: messages posted by flushes, in post order
  tsCounter,            \* transport: last timestamp handed out
  recorded,             \* history: per destination, all fragments recorded, concatenated
  sealed,               \* history: timestamps of messages that received an overflow chunk
  startTimes,           \* history: start times of the last two processPending cycles
  lastFlush,            \* history: the last flushBuffer invocation
  callsSinceRecord,     \* history: transport calls issued per destination since its last fragment
  flushesSinceRecord,   \* history: flushBuffer invocations per destination since its last fragment
  prevFlush,            \* history: per destination, how the latest flush ended
  failed,               \* history: destinations with a failed transport call
  recordedAtStop,       \* history: the value of recorded when stop() was called
  channels,             \* correlated channel -> UserChannel (created, channelId, trackedMessageIds, queue, resolve, closed)
  userChannels,         \* message id -> correlated channel
  gen,                  \* per channel: position of its receive() generator
  sendPc,               \* per channel: position of send()
  sendCount,            \* send() calls made
  inboundCount,         \* inbound messages handled so far that were not discarded
  lastTop,              \* history: the last inbound message posted outside any thread
  arrived,              \* history: per channel, the reply texts accepted for it, in arrival order
  yielded,              \* history: per channel, the texts receive() yielded, in order
  origin,               \* history: message id -> the channel whose send() started its
                        \* thread, and the thread root the message named
  notices,              \* transport: messages sent with say(), in order
  serviceErrors,        \* operator log: the first argument of each serviceError call, in order
  deletedAgents,        \* agents handed to agentManager.deleteAgent, in call order
  stopVisited,          \* stop(): destinations its loop over channelAgents has visited
  ctor,                 \* SlackService constructor: its argument and how it ended
  svc,                  \* SlackService.run: lastResponseSent, userAgents and the handler calls
  channelAgents,        \* destination -> None | Some(agent)
  agentCount,           \* agents spawned so far
  agentLog,             \* per agent: its event log (AgentEventState)
  agentQueue,           \* per agent: request ids submitted and not yet handled
  req,                  \* per request: the handleAgentMessage call serving it
  requestCount          \* request ids handed out by handleInput

flushVars == <<chatBuffers, pendingChannelIds, sendTimer, isProcessing, lastSendTime,
               pc, todo, frame, messages>>
schedVars == <<now, flushVars, messageIdToBotUserId, tsCounter>>
histVars == <<recorded, sealed, startTimes, lastFlush, callsSinceRecord,
              flushesSinceRecord, prevFlush, failed, recordedAtStop>>
chanVars == <<channels, userChannels, gen, sendPc, sendCount, inboundCount, lastTop, arrived,
              yielded, origin>>
agentVars == <<channelAgents, agentCount, agentLog, agentQueue, req, requestCount>>
auxVars == <<serviceErrors, deletedAgents, stopVisited, ctor, svc>>
vars == <<schedVars, histVars, chanVars, agentVars, notices, auxVars>>

BotUserId == "UBOT"

\* ------------------------------------------------- scheduler: pure helpers
\* serviceError() that reports nothing.
ServiceErrorSilent(log, label) == log

\* tokenRingApp.serviceError(label, error): the operator log after the call.
ServiceError(log, label) == Append(log, label)

\* pendingChannelIds.add() that forgets the other members.
AddPendingAlone(p, d) == <<d>>

\* pendingChannelIds.add(d): the set keeps insertion order.
AddPending(p, d) == IF d \in Range(p) THEN p ELSE Append(p, d)

\* scheduleSend() without the minimum interval.
ScheduleSendNoFloor(timer, processing, last, t) ==
  IF timer # None \/ processing
  THEN timer
  ELSE Some([at |-> t, live |-> TRUE])

\* scheduleSend(): the timer after the call.
ScheduleSend(timer, processing, last, t) ==
  IF timer # None \/ processing
  THEN timer
  ELSE Some([at |-> t + Max(0, (last + SEND_INTERVAL_MS) - t), live |-> TRUE])

\* A finally block of processPending() that never schedules.
RescheduleNever(pending, timer, t) == timer

\* processPending(), finally block, entered at time t just after lastSendTime
\* was set to t and isProcessing to false: scheduleSend() if the set is not empty.
Reschedule(pending, timer, t) ==
  IF pending # <<>> THEN ScheduleSend(timer, FALSE, t, t) ELSE timer

\* flushBuffer() without the comparison of text and lastSentText.
FlushCallNoDedup(d, buf) ==
  IF buf = None THEN None
  ELSE LET b == Get(buf) IN
    IF b.text = <<>> THEN None
    ELSE Some([channelId |-> d,
               kind |-> IF IsSome(b.messageTs) THEN "update" ELSE "post",
               overflow |-> Len(b.text) > MAX_MESSAGE_LENGTH,
               text |-> SubSeq(b.text, 1, IF Len(b.text) > MAX_MESSAGE_LENGTH
                                          THEN MAX_MESSAGE_LENGTH ELSE Len(b.text)),
               remaining |-> SubSeq(b.text, MAX_MESSAGE_LENGTH + 1, Len(b.text)),
               ts |-> b.messageTs,
               detached |-> FALSE,
               clean |-> FALSE])

\* flushBuffer() up to its first await: the transport call it issues, or None.
FlushCall(d, buf) ==
  IF buf = None THEN None
  ELSE LET b == Get(buf) IN
    IF b.text = <<>> \/ Some(b.text) = b.lastSentText THEN None
    ELSE IF Len(b.text) > MAX_MESSAGE_LENGTH
    THEN Some([channelId |-> d,
               kind |-> IF IsSome(b.messageTs) THEN "update" ELSE "post",
               overflow |-> TRUE,
               text |-> SubSeq(b.text, 1, MAX_MESSAGE_LENGTH),
               remaining |-> SubSeq(b.text, MAX_MESSAGE_LENGTH + 1, Len(b.text)),
               ts |-> b.messageTs,
               detached |-> FALSE,
               clean |-> FALSE])
    ELSE Some([channelId |-> d,
               kind |-> IF IsSome(b.messageTs) THEN "update" ELSE "post",
               overflow |-> FALSE,
               text |-> b.text,
               remaining |-> <<>>,
               ts |-> b.messageTs,
               detached |-> FALSE,
               clean |-> FALSE])

\* flushBuffer() whose overflow branch keeps the editable message.
FlushResumeKeepsTs(b, f, outcome, newTs) ==
  IF f.overflow
  THEN [text |-> f.remaining, lastSentText |-> Some(<<>>),
        messageTs |-> IF f.kind = "post" /\ outcome = "ok" THEN Some(newTs) ELSE b.messageTs]
  ELSE IF outcome = "ok"
       THEN IF f.kind = "post"
            THEN [b EXCEPT !.messageTs = Some(newTs), !.lastSentText = Some(f.text)]
            ELSE [b EXCEPT !.lastSentText = Some(f.text)]
       ELSE b

\* flushBuffer() after the transport call returned: the buffer it leaves.
FlushResume(b, f, outcome, newTs) ==
  IF f.overflow
  THEN [text |-> f.remaining, lastSentText |-> Some(<<>>), messageTs |-> None]
  ELSE IF f.kind = "post"
       THEN IF outcome = "ok"
            THEN [b EXCEPT !.messageTs = Some(newTs), !.lastSentText = Some(f.text)]
            ELSE b
       ELSE IF outcome = "ok"
            THEN [b EXCEPT !.lastSentText = Some(f.text)]
            ELSE b

\* The transport's message list after the call took effect.
Transport(msgs, f, outcome, newTs) ==
  IF outcome # "ok" THEN msgs
  ELSE IF f.kind = "post"
       THEN Append(msgs, [channel |-> f.channelId, ts |-> newTs, text |-> f.text])
       ELSE [i \in 1..Len(msgs) |->
               IF msgs[i].ts = Get(f.ts) THEN [msgs[i] EXCEPT !.text = f.text] ELSE msgs[i]]

\* --------------------------------------------------------------- initial state
SchedInit ==
  /\ now = EpochMs
  /\ chatBuffers = [d \in Dests |-> None]
  /\ pendingChannelIds = <<>>
  /\ sendTimer = None
  /\ isProcessing = FALSE
  /\ lastSendTime = 0
  /\ messageIdToBotUserId = <<>>
  /\ pc = [p \in Procs |-> "idle"]
  /\ todo = [p \in Procs |-> <<>>]
  /\ frame = [p \in Procs |-> None]
  /\ messages = <<>>
  /\ tsCounter = 0

HistInit ==
  /\ recorded = [d \in Dests |-> <<>>]
  /\ sealed = {}
  /\ startTimes = <<>>
  /\ lastFlush = [dest |-> "D1", issued |-> FALSE, bit |-> 0]
  /\ callsSinceRecord = [d \in Dests |-> 0]
  /\ flushesSinceRecord = [d \in Dests |-> 0]
  /\ prevFlush = [d \in Dests |-> "none"]
  /\ failed = [d \in Dests |-> FALSE]
  /\ recordedAtStop = [d \in Dests |-> <<>>]

NoChannel == [created |-> FALSE, channelId |-> "D1", trackedMessageIds |-> {},
              queue |-> <<>>, resolve |-> FALSE, closed |-> FALSE]
NoRequest == [pc |-> "free", user |-> "undefined", channelId |-> "D1", agent |-> 0, requestId |-> 0,
              cursor |-> 0, batchEnd |-> 0, responseSent |-> FALSE, aborted |-> FALSE,
              timer |-> FALSE, timedOut |-> FALSE, threw |-> FALSE, start |-> 0, msg |-> 0]

ChanInit ==
  /\ channels = [c \in Chans |-> NoChannel]
  /\ userChannels = <<>>
  /\ gen = [c \in Chans |-> "ready"]
  /\ sendPc = [c \in Chans |-> "idle"]
  /\ sendCount = 0
  /\ inboundCount = 0
  /\ lastTop = [bit |-> 0, user |-> "undefined", channel |-> "D1", kind |-> "blank",
                bot |-> FALSE]
  /\ arrived = [c \in Chans |-> <<>>]
  /\ yielded = [c \in Chans |-> <<>>]
  /\ origin = <<>>
  /\ notices = <<>>

AgentInit ==
  /\ channelAgents = [d \in Dests |-> None]
  /\ agentCount = 0
  /\ agentLog = <<>>
  /\ agentQueue = <<>>
  /\ req = [r \in Reqs |-> NoRequest]
  /\ requestCount = 0

NoConfig == [botToken |-> None, signingSecret |-> None, appToken |-> None,
             channelId |-> None, authorizedUserIds |-> None, defaultAgentType |-> None]

\* A handler call of SlackService.run that has not started.
NoCall == [pc |-> "free", user |-> "undefined", agent |-> 0, requestId |-> 0, cursor |-> 0,
           subscribed |-> FALSE, timer |-> FALSE, handled |-> FALSE]

\* SlackService before any event: lastResponseSent = false, userAgents empty
\* (0 stands for no entry).
SvcInit ==
  svc = [lastResponseSent |-> FALSE,
         userAgents |-> [u \in Users |-> 0],
         calls |-> [r \in Reqs |-> NoCall]]

\* No constructor call has returned yet.
NotConstructed == [threw |-> "unconstructed"]

AuxInit ==
  /\ serviceErrors = <<>>
  /\ deletedAgents = <<>>
  /\ stopVisited = {}
  /\ ctor = [config |-> NoConfig, result |-> NotConstructed]
  /\ SvcInit

Init == SchedInit /\ HistInit /\ ChanInit /\ AgentInit /\ AuxInit

\* ------------------------------------------------------ scheduler: actions
\* The clock advances; timers and transport replies may come arbitrarily late.
Tick ==
  /\ now + TickMs <= EpochMs + HorizonMs
  /\ now' = now + TickMs
  /\ UNCHANGED <<flushVars, messageIdToBotUserId, tsCounter, histVars, chanVars,
                 agentVars, notices, auxVars>>

RecordBudget(d) == IF d = "D1" THEN MaxRecorded ELSE MaxRecordedOther

\* A buffer that keeps the newest fragment only.
ReplaceText(text, content) == content

\* handleChatOutput, line 268: buffer.text += content
AppendText(text, content) == text \o content

\* handleChatOutput(channelId, content): what it does to the scheduler.
RecordOutput(d, content) ==
  /\ chatBuffers' = [chatBuffers EXCEPT ![d] =
       IF @ = None
       THEN Some([text |-> content, lastSentText |-> None, messageTs |-> None])
       ELSE Some([Get(@) EXCEPT !.text = AppendText(@, content)])]
  /\ pendingChannelIds' = AddPending(pendingChannelIds, d)
  /\ sendTimer' = ScheduleSend(sendTimer, isProcessing, lastSendTime, now)
  /\ recorded' = [recorded EXCEPT ![d] = @ \o content]
  /\ callsSinceRecord' = [callsSinceRecord EXCEPT ![d] = 0]
  /\ flushesSinceRecord' = [flushesSinceRecord EXCEPT ![d] = 0]
  /\ prevFlush' = [prevFlush EXCEPT ![d] = "none"]
  /\ frame' = [q \in Procs |->
       IF IsSome(frame[q]) /\ Get(frame[q]).channelId = d
       THEN Some([Get(frame[q]) EXCEPT !.clean = FALSE])
       ELSE frame[q]]
  /\ UNCHANGED <<now, isProcessing, lastSendTime, messageIdToBotUserId, pc, todo,
                 messages, tsCounter, sealed, startTimes, lastFlush, failed,
                 recordedAtStop>>

\* handleChatOutput called with any fragment at any moment.
HandleChatOutput(d, content) ==
  /\ Len(recorded[d]) + Len(content) <= RecordBudget(d)
  /\ RecordOutput(d, content)
  /\ UNCHANGED <<chanVars, agentVars, notices, auxVars>>

\* The flush request of handleAgentMessage: pendingChannelIds.add(channelId);
\* scheduleSend()
RequestFlush(d) ==
  /\ pendingChannelIds' = AddPending(pendingChannelIds, d)
  /\ sendTimer' = ScheduleSend(sendTimer, isProcessing, lastSendTime, now)
  /\ UNCHANGED <<now, chatBuffers, isProcessing, lastSendTime, messageIdToBotUserId,
                 pc, todo, frame, messages, tsCounter, histVars>>

\* A flush request at any moment.
MarkPending(d) ==
  /\ RequestFlush(d)
  /\ UNCHANGED <<chanVars, agentVars, notices, auxVars>>

\* A snapshot that holds the first pending destination only.
SnapshotFirst(pending) == <<Head(pending)>>

\* processPending, line 288: [...this.pendingChannelIds]
Snapshot(pending) == pending

\* `await this.flushBuffer(channelId)` for the first channel of list: process p
\* either suspends on the transport call or, after a no-op flush, on the await.
BeginFlush(p, list) ==
  LET d == Head(list)
      call == FlushCall(d, chatBuffers[d])
      other == \E q \in Procs \ {p} : IsSome(frame[q]) /\ Get(frame[q]).channelId = d
  IN /\ todo' = [todo EXCEPT ![p] = Tail(list)]
     /\ pc' = [pc EXCEPT ![p] = IF call = None THEN "loop" ELSE "await"]
     /\ frame' = [q \in Procs |->
          IF q = p
          THEN IF call = None THEN None ELSE Some([Get(call) EXCEPT !.clean = ~other])
          ELSE IF call # None /\ IsSome(frame[q]) /\ Get(frame[q]).channelId = d
               THEN Some([Get(frame[q]) EXCEPT !.clean = FALSE])
               ELSE frame[q]]
     /\ lastFlush' = [dest |-> d, issued |-> call # None, bit |-> 1 - lastFlush.bit]
     /\ callsSinceRecord' = [callsSinceRecord EXCEPT ![d] = IF call = None THEN @ ELSE @ + 1]
     /\ flushesSinceRecord' = [flushesSinceRecord EXCEPT ![d] = @ + 1]
     /\ prevFlush' = [prevFlush EXCEPT ![d] = IF call = None THEN @ ELSE "none"]

NoFlush ==
  UNCHANGED <<frame, lastFlush, callsSinceRecord, flushesSinceRecord, prevFlush>>

\* The timer fires: processPending() up to its first await.
ProcessPending ==
  /\ IsSome(sendTimer) /\ Get(sendTimer).live /\ now >= Get(sendTimer).at
  /\ IF isProcessing
     THEN /\ sendTimer' = Some([Get(sendTimer) EXCEPT !.live = FALSE])
          /\ UNCHANGED <<pendingChannelIds, isProcessing, lastSendTime, pc, todo,
                         startTimes>>
          /\ NoFlush
     ELSE /\ sendTimer' = None
          /\ startTimes' = IF startTimes = <<>> THEN <<now>>
                           ELSE <<startTimes[Len(startTimes)], now>>
          /\ pendingChannelIds' = <<>>
          /\ IF pendingChannelIds = <<>>
             THEN /\ lastSendTime' = now
                  /\ UNCHANGED <<isProcessing, pc, todo>>
                  /\ NoFlush
             ELSE /\ isProcessing' = TRUE
                  /\ BeginFlush("cycle", Snapshot(pendingChannelIds))
                  /\ UNCHANGED lastSendTime
  /\ UNCHANGED <<now, chatBuffers, messageIdToBotUserId, messages, tsCounter,
                 recorded, sealed, failed,
                 recordedAtStop>>
  /\ UNCHANGED <<chanVars, agentVars, notices, auxVars>>

\* processPending() resumes after an awaited flushBuffer: next channel, or the
\* end of the cycle (lastSendTime, finally block).
CycleStep ==
  /\ pc["cycle"] = "loop"
  /\ IF todo["cycle"] = <<>>
     THEN /\ lastSendTime' = now
          /\ isProcessing' = FALSE
          /\ sendTimer' = Reschedule(pendingChannelIds, sendTimer, now)
          /\ pc' = [pc EXCEPT !["cycle"] = "idle"]
          /\ UNCHANGED todo
          /\ NoFlush
     ELSE /\ BeginFlush("cycle", todo["cycle"])
          /\ UNCHANGED <<lastSendTime, isProcessing, sendTimer>>
  /\ UNCHANGED <<now, chatBuffers, pendingChannelIds, messageIdToBotUserId, messages,
                 tsCounter, recorded, sealed, startTimes, failed,
                 recordedAtStop>>
  /\ UNCHANGED <<chanVars, agentVars, notices, auxVars>>

\* The operator log after flushBuffer() handled the outcome of its call: the
\* overflow branch reports every error, the other branch every error but a
\* message_not_found of chat.update.
FlushReport(log, f, outcome) ==
  IF f.overflow
  THEN IF outcome # "ok" THEN ServiceError(log, "Error flushing partial buffer:") ELSE log
  ELSE IF outcome = "error" THEN ServiceError(log, "Error flushing buffer:") ELSE log

\* The transport call of process p returns with an outcome: flushBuffer() runs to
\* its end.
TransportReply(p, outcome) ==
  /\ pc[p] = "await"
  /\ LET f == Get(frame[p])
         d == f.channelId
         newTs == tsCounter + 1
         posted == f.kind = "post" /\ outcome = "ok"
     IN /\ outcome = "message_not_found" => f.kind = "update"
        /\ messages' = Transport(messages, f, outcome, newTs)
        /\ tsCounter' = IF posted THEN newTs ELSE tsCounter
        /\ messageIdToBotUserId' =
             IF posted THEN (<<d, newTs>> :> BotUserId) @@ messageIdToBotUserId
             ELSE messageIdToBotUserId
        /\ chatBuffers' =
             IF f.detached THEN chatBuffers
             ELSE [chatBuffers EXCEPT ![d] = Some(FlushResume(Get(@), f, outcome, newTs))]
        /\ pendingChannelIds' =
             IF f.overflow THEN AddPending(pendingChannelIds, d) ELSE pendingChannelIds
        /\ sealed' = IF f.overflow /\ outcome = "ok"
                     THEN sealed \cup {IF f.kind = "post" THEN newTs ELSE Get(f.ts)}
                     ELSE sealed
        /\ failed' = [failed EXCEPT ![d] = @ \/ outcome # "ok"]
        /\ prevFlush' = [prevFlush EXCEPT ![d] =
             IF f.clean /\ outcome = "ok" /\ ~f.overflow THEN "okfit"
             ELSE IF outcome = "message_not_found" THEN "stale" ELSE "none"]
        /\ serviceErrors' = FlushReport(serviceErrors, f, outcome)
  /\ pc' = [pc EXCEPT ![p] = "loop"]
  /\ frame' = [frame EXCEPT ![p] = None]
  /\ UNCHANGED <<now, sendTimer, isProcessing, lastSendTime, todo, recorded, recordedAtStop, startTimes,
                 lastFlush, callsSinceRecord, flushesSinceRecord>>
  /\ UNCHANGED <<chanVars, agentVars, notices, deletedAgents, stopVisited, ctor, svc>>

\* stop(), after its flush loop: pendingChannelIds.clear(); chatBuffers.clear().
\* A flushBuffer still suspended keeps its reference to a buffer that is no
\* longer in the map.
ClearBuffers(fr) ==
  /\ pendingChannelIds' = <<>>
  /\ chatBuffers' = [d \in Dests |-> None]
  /\ frame' = [q \in Procs |->
       IF IsSome(fr[q]) THEN Some([Get(fr[q]) EXCEPT !.detached = TRUE]) ELSE fr[q]]

\* Where stop() is after clearing the buffers: with no agent to delete it runs
\* on to app.stop(), otherwise it suspends on the first deleteAgent.
AfterClear ==
  IF \A d \in Dests : channelAgents[d] = None THEN "stopped" ELSE "agents"

\* stop() up to its first await.
Stop ==
  /\ pc["stop"] = "idle"
  /\ sendTimer' = None
  /\ recordedAtStop' = recorded
  /\ IF pendingChannelIds = <<>>
     THEN /\ ClearBuffers(frame)
          /\ pc' = [pc EXCEPT !["stop"] = AfterClear]
          /\ UNCHANGED <<todo, lastFlush, callsSinceRecord, flushesSinceRecord, prevFlush>>
     ELSE /\ BeginFlush("stop", pendingChannelIds)
          /\ UNCHANGED <<pendingChannelIds, chatBuffers>>
  /\ UNCHANGED <<now, isProcessing, lastSendTime, messageIdToBotUserId, messages,
                 tsCounter, recorded, sealed, startTimes, failed>>
  /\ UNCHANGED <<chanVars, agentVars, notices, auxVars>>

\* stop() resumes after an awaited flushBuffer.
StopStep ==
  /\ pc["stop"] = "loop"
  /\ IF todo["stop"] = <<>>
     THEN /\ ClearBuffers(frame)
          /\ pc' = [pc EXCEPT !["stop"] = AfterClear]
          /\ UNCHANGED <<todo, lastFlush, callsSinceRecord, flushesSinceRecord, prevFlush>>
     ELSE /\ BeginFlush("stop", todo["stop"])
          /\ UNCHANGED <<pendingChannelIds, chatBuffers>>
  /\ UNCHANGED <<now, sendTimer, isProcessing, lastSendTime, messageIdToBotUserId,
                 messages, tsCounter, recorded, sealed, startTimes, failed,
                 recordedAtStop>>
  /\ UNCHANGED <<chanVars, agentVars, notices, auxVars>>

\* stop(), lines 96-100: one turn of the loop over channelAgents.values(), which
\* hands the agent of a destination not yet visited to deleteAgent, or, with
\* every entry visited, channelAgents.clear() and app.stop(), taken to succeed.
StopAgents ==
  /\ pc["stop"] = "agents"
  /\ IF \E d \in Dests \ stopVisited : channelAgents[d] # None
     THEN \E d \in Dests \ stopVisited :
            /\ channelAgents[d] # None
            /\ deletedAgents' = Append(deletedAgents, Get(channelAgents[d]))
            /\ stopVisited' = stopVisited \cup {d}
            /\ UNCHANGED <<pc, channelAgents>>
     ELSE /\ pc' = [pc EXCEPT !["stop"] = "stopped"]
          /\ channelAgents' = [d \in Dests |-> None]
          /\ UNCHANGED <<deletedAgents, stopVisited>>
  /\ UNCHANGED <<now, chatBuffers, pendingChannelIds, sendTimer, isProcessing,
                 lastSendTime, todo, frame, messages, messageIdToBotUserId, tsCounter,
                 histVars, chanVars, notices, serviceErrors, ctor, svc, agentCount,
                 agentLog,
                 agentQueue, req, requestCount>>

\* ------------------------------------- correlated channels and the router
\* A destination without an entry in config.channels (a direct conversation).
Conversations == Dests \cup {"DM"}
\* config.channels[...].allowedUsers
AllowedUsers(d) == IF d = "D1" THEN {"U1"} ELSE {}
Undefined == "undefined"

\* this.messageIdToBotUserId.set(id, this.botUserId)
RecordSender(table, id) == (id :> BotUserId) @@ table

\* this.messageIdToBotUserId.get(id)
SenderOf(id) ==
  IF id \in DOMAIN messageIdToBotUserId THEN messageIdToBotUserId[id] ELSE Undefined

\* The channel of the first correlated channel open on the destination of id.
LookupChannelByDest(id) ==
  IF \E c \in Chans : channels[c].created /\ channels[c].channelId = id[1]
  THEN Some(CHOOSE c \in Chans : channels[c].created /\ channels[c].channelId = id[1])
  ELSE None

\* this.userChannels.get(id)
LookupChannel(id) ==
  IF id \in DOMAIN userChannels THEN Some(userChannels[id]) ELSE None

\* A queue that hands out the newest text first.
EnqueueFirst(q, text) == <<text>> \o q

\* channel.queue.push(text)
Enqueue(q, text) == Append(q, text)

\* createCommunicationChannelWithUser(userId) / createCommunicationChannelWithChannel
CreateChannel(c, d) ==
  /\ ~channels[c].created
  /\ channels' = [channels EXCEPT ![c] = [NoChannel EXCEPT !.created = TRUE, !.channelId = d]]
  /\ UNCHANGED <<schedVars, histVars, agentVars, notices, auxVars, userChannels, gen, sendPc,
                 sendCount, inboundCount, lastTop, arrived, yielded, origin>>

\* send(message) up to the await of postMessage.
Send(c) ==
  /\ channels[c].created /\ sendPc[c] = "idle" /\ sendCount < MaxSends
  /\ sendPc' = [sendPc EXCEPT ![c] = "await"]
  /\ sendCount' = sendCount + 1
  /\ UNCHANGED <<schedVars, histVars, agentVars, notices, auxVars, channels, userChannels, gen,
                 inboundCount, lastTop, arrived, yielded, origin>>

\* postMessage of send() returns: the message is tracked, or send() throws.
SendReply(c, outcome) ==
  /\ sendPc[c] = "await"
  /\ sendPc' = [sendPc EXCEPT ![c] = "idle"]
  /\ IF outcome = "ok"
     THEN LET id == <<channels[c].channelId, tsCounter + 1>> IN
          /\ tsCounter' = tsCounter + 1
          /\ channels' = [channels EXCEPT ![c].trackedMessageIds = @ \cup {id}]
          /\ userChannels' = (id :> c) @@ userChannels
          /\ messageIdToBotUserId' = RecordSender(messageIdToBotUserId, id)
          /\ origin' = (id :> [owner |-> c, root |-> None]) @@ origin
     ELSE UNCHANGED <<tsCounter, channels, userChannels, messageIdToBotUserId, origin>>
  /\ UNCHANGED <<now, flushVars, histVars, agentVars, notices, auxVars, gen, sendCount,
                 inboundCount, lastTop, arrived, yielded>>

\* The body of receive() from the loop test to the next yield, await or return.
RunGenerator(c) ==
  IF channels[c].closed
  THEN /\ gen' = [gen EXCEPT ![c] = "done"]
       /\ UNCHANGED <<channels, yielded>>
  ELSE IF channels[c].queue # <<>>
  THEN /\ yielded' = [yielded EXCEPT ![c] = Append(@, Head(channels[c].queue))]
       /\ channels' = [channels EXCEPT ![c].queue = Tail(@)]
       /\ gen' = [gen EXCEPT ![c] = "ready"]
  ELSE /\ channels' = [channels EXCEPT ![c].resolve = TRUE]
       /\ gen' = [gen EXCEPT ![c] = "waiting"]
       /\ UNCHANGED yielded

\* The consumer asks receive() for the next item.
Receive(c) ==
  /\ channels[c].created /\ gen[c] = "ready"
  /\ RunGenerator(c)
  /\ UNCHANGED <<schedVars, histVars, agentVars, notices, auxVars, userChannels, sendPc,
                 sendCount, inboundCount, lastTop, arrived, origin>>

\* receive() continues after the promise it awaited was resolved; the value the
\* promise was resolved with is not used.
Resume(c) ==
  /\ gen[c] = "woken"
  /\ RunGenerator(c)
  /\ UNCHANGED <<schedVars, histVars, agentVars, notices, auxVars, userChannels, sendPc,
                 sendCount, inboundCount, lastTop, arrived, origin>>

\* A delete that removes nothing.
RemoveNoKeys(f, keys) == f

\* Map.delete(k) for every k of keys.
RemoveKeys(f, keys) == [k \in (DOMAIN f) \ keys |-> f[k]]

\* close()
Close(c) ==
  /\ channels[c].created
  /\ channels' = [channels EXCEPT ![c].closed = TRUE, ![c].resolve = FALSE,
                                  ![c].trackedMessageIds = {}]
  /\ gen' = [gen EXCEPT ![c] = IF channels[c].resolve THEN "woken" ELSE @]
  /\ userChannels' = RemoveKeys(userChannels, channels[c].trackedMessageIds)
  /\ messageIdToBotUserId' = RemoveKeys(messageIdToBotUserId, channels[c].trackedMessageIds)
  /\ UNCHANGED <<now, flushVars, tsCounter, histVars, agentVars, notices, auxVars, sendPc,
                 sendCount, inboundCount, lastTop, arrived, yielded, origin>>

\* A delivery that wakes the waiter and enqueues the text as well.
AcceptBoth(ch, text) == [ch EXCEPT !.resolve = FALSE, !.queue = Enqueue(@, text)]

\* handleMessage, lines 185-190: the waiter is woken with the text if there is
\* one, otherwise the text is pushed onto the queue.
Accept(ch, text) ==
  [ch EXCEPT !.resolve = FALSE, !.queue = IF ch.resolve THEN @ ELSE Enqueue(@, text)]

\* handleMessage, lines 179-191: the reply msgId with the given text is accepted
\* for channel c.
Deliver(c, msgId, threadId, text) ==
  /\ channels' = [channels EXCEPT
       ![c] = [Accept(channels[c], text) EXCEPT !.trackedMessageIds = @ \cup {msgId}]]
  /\ gen' = [gen EXCEPT ![c] = IF channels[c].resolve THEN "woken" ELSE @]
  /\ userChannels' = (msgId :> c) @@ userChannels
  /\ messageIdToBotUserId' = RecordSender(messageIdToBotUserId, msgId)
  /\ arrived' = [arrived EXCEPT ![c] = Append(@, text)]
  /\ origin' = (msgId :> [owner |-> IF threadId \in DOMAIN origin
                                     THEN origin[threadId].owner ELSE "none",
                           root |-> Some(threadId)]) @@ origin

\* getOrCreateAgentForChannel up to its await: handleAgentMessage starts for
\* request r, on behalf of the sender of inbound message number msg.
BeginAgentMessageFor(r, user, d, msg) ==
  req' = [req EXCEPT ![r] =
    IF channelAgents[d] = None
    THEN [NoRequest EXCEPT !.pc = "spawn", !.user = user, !.channelId = d, !.msg = msg]
    ELSE [NoRequest EXCEPT !.pc = "waitIdle", !.user = user, !.channelId = d,
                           !.agent = Get(channelAgents[d]), !.msg = msg]]

\* handleAgentMessage starts for the inbound message being handled, which is
\* numbered by the count of inbound messages.
BeginAgentMessage(r, user, d) == BeginAgentMessageFor(r, user, d, inboundCount')

\* The name a new handleAgentMessage call is given.
FreeReq == IF req["R1"].pc = "free" THEN "R1" ELSE "R2"

\* An allow-list that admits nobody when it is empty.
AuthorizedMembersOnly(user, d) == user \in AllowedUsers(d)

\* handleMessage, line 199: the allow-list of the destination admits the sender.
Authorized(user, d) == ~(AllowedUsers(d) # {} /\ user \notin AllowedUsers(d))

\* A handleMessage that tests the allow-list before it looks at the thread.
DispositionAllowListFirst(user, d, kind, thread, bot) ==
  IF user = Undefined \/ kind = "blank" \/ bot THEN "dropped"
  ELSE IF d \in Dests /\ ~Authorized(user, d) THEN "unauthorized"
  ELSE IF thread # None /\ SenderOf(<<d, Get(thread)>>) # BotUserId THEN "ignored"
  ELSE IF thread # None /\ LookupChannel(<<d, Get(thread)>>) # None THEN "delivered"
  ELSE IF d \notin Dests THEN "unconfigured"
  ELSE IF kind = "mention" THEN "empty"
  ELSE "agent"

\* How handleMessage disposes of a message.
Disposition(user, d, kind, thread, bot) ==
  IF user = Undefined \/ kind = "blank" \/ bot THEN "dropped"
  ELSE IF thread # None /\ SenderOf(<<d, Get(thread)>>) # BotUserId THEN "ignored"
  ELSE IF thread # None /\ LookupChannel(<<d, Get(thread)>>) # None THEN "delivered"
  ELSE IF d \notin Dests THEN "unconfigured"
  ELSE IF ~Authorized(user, d) THEN "unauthorized"
  ELSE IF kind = "mention" THEN "empty"
  ELSE "agent"

\* handleMessage(msg, say) for an inbound message. kind is what the text holds:
\* nothing but blanks, nothing but a mention, or words. The program keeps the
\* identifier of an accepted reply only, so only an accepted reply takes a
\* timestamp of the model, which also stands for its text; a thread root 0 is a
\* message the relay has never seen. sayOk tells whether the say() of the
\* authorization notice succeeds; when it fails handleMessage throws and the
\* handler registered by start() reports the error (the handler of app_mention
\* events does the same under the label 'Error processing mention:').
HandleMessage(user, d, kind, thread, bot, sayOk) ==
  LET ts == tsCounter + 1
      msgId == <<d, ts>>
      what == Disposition(user, d, kind, thread, bot)
      acts == what \in {"delivered", "unauthorized", "agent"}
  IN /\ acts => inboundCount < MaxInbound
     /\ what = "unauthorized" \/ sayOk
     /\ what = "agent" => \E r \in Reqs : req[r].pc = "free"
     /\ inboundCount' = IF acts THEN inboundCount + 1 ELSE inboundCount
     /\ lastTop' = IF thread = None
                   THEN [bit |-> 1 - lastTop.bit, user |-> user, channel |-> d,
                         kind |-> kind, bot |-> bot]
                   ELSE lastTop
     /\ tsCounter' = IF what = "delivered" THEN ts ELSE tsCounter
     /\ IF what = "delivered"
        THEN Deliver(Get(LookupChannel(<<d, Get(thread)>>)), msgId, <<d, Get(thread)>>, ts)
        ELSE UNCHANGED <<channels, gen, userChannels, messageIdToBotUserId, arrived, origin>>
     /\ notices' = IF what = "unauthorized"
                   THEN Append(notices, [channel |-> d, user |-> user, kind |-> "unauthorized",
                                         req |-> 0, ok |-> sayOk])
                   ELSE notices
     /\ serviceErrors' = IF what = "unauthorized" /\ ~sayOk
                         THEN ServiceError(serviceErrors, "Error processing message:")
                         ELSE serviceErrors
     /\ IF what = "agent" THEN BeginAgentMessage(FreeReq, user, d) ELSE UNCHANGED req
     /\ UNCHANGED <<now, flushVars, histVars, sendPc, sendCount, yielded, channelAgents,
                    agentCount, agentLog, agentQueue, requestCount, deletedAgents,
                    stopVisited, ctor, svc>>

\* The inbound messages tried: a text from each user, top-level or in any
\* thread, and, top-level or in the newest thread, a text that is only a
\* mention and one message for each reason to discard (no sender, blank text,
\* sent by a bot).
Shape(user, kind, bot, thread) == [user |-> user, kind |-> kind, bot |-> bot, thread |-> thread]
Inbound ==
  {Shape(u, "text", FALSE, th) : u \in Users, th \in {None} \cup {Some(t) : t \in 0..tsCounter}}
    \cup {Shape(x[1], x[2], x[3], th) :
            x \in {<<"U1", "mention", FALSE>>, <<"U2", "mention", FALSE>>,
                   <<Undefined, "text", FALSE>>,
                   <<"U1", "blank", FALSE>>, <<"U1", "text", TRUE>>},
            th \in {None, Some(tsCounter)}}

Disp(x) == Disposition(x[1].user, x[2], x[1].kind, x[1].thread, x[1].bot)
Discards == {"dropped", "ignored", "unconfigured", "empty"}
\* A discarded message leaves no trace in the relay, so of the inbound messages
\* that are discarded for the same reason one is tried.
Tried(all) ==
  {x \in all : Disp(x) \notin Discards}
    \cup {CHOOSE x \in all : Disp(x) = w : w \in {Disp(y) : y \in all} \cap Discards}

\* The messages posted inside a thread.
Threaded == {<<m, d>> : m \in {i \in Inbound : i.thread # None}, d \in {"D1", "DM"}}

\* The channels whose owner iterates receive(); the owner of the other channel
\* only sends and closes.
Consumers == {"c1"}

\* The router and its channels under any pattern of sends, threaded replies and
\* closes; channel c1 is opened first.
ChanNext ==
  \/ \E cd \in {<<"c1", "D1">>, <<"c2", "D1">>, <<"c2", "DM">>} :
       /\ cd[1] = "c2" => channels["c1"].created
       /\ CreateChannel(cd[1], cd[2])
  \/ \E c \in Chans : Send(c)
  \/ \E c \in Chans, outcome \in {"ok", "error"} : SendReply(c, outcome)
  \/ \E c \in Consumers : Receive(c)
  \/ \E c \in Consumers : Resume(c)
  \/ \E c \in Chans : Close(c)
  \/ \E x \in Tried(Threaded) : HandleMessage(x[1].user, x[2], x[1].kind, x[1].thread, x[1].bot, TRUE)

ChanSpec == Init /\ [][ChanNext]_vars

\* The messages posted outside any thread.
TopLevel == {<<m, d>> : m \in {i \in Inbound : i.thread = None}, d \in Conversations}

\* --------------------------------------------- the agent event correlator
\* Agents are numbered in spawn order; agentLog[a] and agentQueue[a] belong to
\* agent a. An event is [type, requestId, message].
Agents == 1..agentCount

\* agent.config.maxRunTime > 0, per destination's agent type.
HasMaxRunTime(d) == d = "D1"

\* AgentExecutionState.idle: the agent has no request to work on.
Idle(a) == agentQueue[a] = <<>>

\* The fragment an agent emits.
AgentFragments == {<<"a">>}

\* A flag shared by all handleAgentMessage calls.
ResponseSentShared(r) == \E q \in Reqs : req[q].responseSent

\* The local variable responseSent of the call serving r.
ResponseSent(r) == req[r].responseSent

\* agentManager.spawnAgent resolves: the agent is stored for the destination and
\* the call goes on to wait for it to be idle.
SpawnDone(r) ==
  LET d == req[r].channelId
      a == agentCount + 1
  IN /\ req[r].pc = "spawn"
     /\ agentCount' = a
     /\ agentLog' = Append(agentLog, <<>>)
     /\ agentQueue' = Append(agentQueue, <<>>)
     /\ channelAgents' = [channelAgents EXCEPT ![d] = Some(a)]
     /\ req' = [req EXCEPT ![r].pc = "waitIdle", ![r].agent = a]
     /\ UNCHANGED <<schedVars, histVars, chanVars, notices, auxVars, requestCount>>

\* agentManager.spawnAgent rejects: getOrCreateAgentForChannel, handleAgentMessage
\* and handleMessage throw, and the handler registered by start() reports it.
SpawnFailed(r) ==
  /\ req[r].pc = "spawn"
  /\ req' = [req EXCEPT ![r].pc = "done", ![r].threw = TRUE]
  /\ serviceErrors' = ServiceError(serviceErrors, "Error processing message:")
  /\ UNCHANGED <<schedVars, histVars, chanVars, notices, channelAgents, agentCount,
                 agentLog, agentQueue, requestCount, deletedAgents, stopVisited, ctor, svc>>

\* agent.waitForState rejects: handleAgentMessage throws before its try block.
IdleFailed(r) ==
  /\ req[r].pc = "waitIdle"
  /\ req' = [req EXCEPT ![r].pc = "done", ![r].threw = TRUE]
  /\ serviceErrors' = ServiceError(serviceErrors, "Error processing message:")
  /\ UNCHANGED <<schedVars, histVars, chanVars, notices, channelAgents, agentCount,
                 agentLog, agentQueue, requestCount, deletedAgents, stopVisited, ctor, svc>>

\* agent.waitForState(AgentExecutionState, idle) resolves.
IdleObserved(r) ==
  /\ req[r].pc = "waitIdle" /\ Idle(req[r].agent)
  /\ req' = [req EXCEPT ![r].pc = "submit"]
  /\ UNCHANGED <<schedVars, histVars, chanVars, notices, auxVars, channelAgents, agentCount,
                 agentLog, agentQueue, requestCount>>

\* agent.handleInput(), line 216, as seen in the event log: the code of the
\* agent is not part of this repository, so whether the call appends an event
\* for the request before it returns (echo) is left open.
HandleInput(log, id, echo) ==
  IF echo THEN Append(log, [type |-> "input.received", requestId |-> id, message |-> <<>>])
  ELSE log

\* handleAgentMessage, lines 215-226: the input is submitted, then the cursor is
\* taken at the end of the log, the timeout is armed and the subscription starts.
Submit(r, echo) ==
  LET a == req[r].agent
      id == requestCount + 1
      log == HandleInput(agentLog[a], id, echo)
  IN /\ req[r].pc = "submit"
     /\ requestCount' = id
     /\ agentQueue' = [agentQueue EXCEPT ![a] = Append(@, id)]
     /\ agentLog' = [agentLog EXCEPT ![a] = log]
     /\ req' = [req EXCEPT ![r].pc = "listen", ![r].requestId = id,
                           ![r].cursor = Len(log), ![r].start = Len(log),
                           ![r].timer = HasMaxRunTime(req[r].channelId)]
     /\ UNCHANGED <<schedVars, histVars, chanVars, notices, auxVars, channelAgents, agentCount>>

\* The outputs in all event logs.
RECURSIVE Outputs(_)
Outputs(logs) ==
  IF logs = <<>> THEN 0
  ELSE Len(SelectSeq(Head(logs), LAMBDA e : e.type \in {"output.chat", "output.info"})) + Outputs(Tail(logs))

\* The agent, working on its oldest request, emits an output event.
AgentOutput(a, type, message) ==
  /\ ~Idle(a) /\ Outputs(agentLog) < MaxEvents
  /\ agentLog' = [agentLog EXCEPT ![a] =
       Append(@, [type |-> type, requestId |-> Head(agentQueue[a]), message |-> message])]
  /\ UNCHANGED <<schedVars, histVars, chanVars, notices, auxVars, channelAgents, agentCount,
                 agentQueue, req, requestCount>>

\* The agent finishes its oldest request and emits input.handled for it.
AgentHandled(a) ==
  /\ ~Idle(a)
  /\ agentLog' = [agentLog EXCEPT ![a] =
       Append(@, [type |-> "input.handled", requestId |-> Head(agentQueue[a]),
                  message |-> <<>>])]
  /\ agentQueue' = [agentQueue EXCEPT ![a] = Tail(@)]
  /\ UNCHANGED <<schedVars, histVars, chanVars, notices, auxVars, channelAgents, agentCount,
                 req, requestCount>>

\* subscribeStateAsync hands the call the next state of the event log.
NextState(r) ==
  /\ req[r].pc = "listen" /\ ~req[r].aborted
  /\ req[r].cursor < Len(agentLog[req[r].agent])
  /\ req' = [req EXCEPT ![r].pc = "batch", ![r].batchEnd = Len(agentLog[req[r].agent])]
  /\ UNCHANGED <<schedVars, histVars, chanVars, notices, auxVars, channelAgents, agentCount,
                 agentLog, agentQueue, requestCount>>

\* handleAgentMessage, lines 227-249: one turn of the inner loop, for the event
\* at the cursor. sayOk tells whether a say() made for the event succeeds; a
\* failed say() throws, which ends the subscription through the catch block.
ProcessEvent(r, sayOk) ==
  LET a == req[r].agent
      d == req[r].channelId
      cur == req[r].cursor + 1
      ev == agentLog[a][cur]
      chat == ev.type = "output.chat"
      matching == ev.type = "input.handled" /\ ev.requestId = req[r].requestId
      says == ev.type = "output.info" \/ (matching /\ ~ResponseSent(r))
      thrown == says /\ ~sayOk
      aborted == req[r].aborted \/ (matching /\ ~thrown)
  IN /\ req[r].pc = "batch" /\ req[r].cursor < req[r].batchEnd
     /\ says \/ sayOk
     /\ IF chat THEN RecordOutput(d, ev.message)
        ELSE IF matching THEN RequestFlush(d)
        ELSE UNCHANGED <<schedVars, histVars>>
     /\ notices' =
          IF says
          THEN Append(notices, [channel |-> d, user |-> req[r].user,
                                kind |-> IF matching THEN "noresponse" ELSE "info",
                                req |-> req[r].requestId, ok |-> sayOk])
          ELSE notices
     /\ serviceErrors' = IF thrown
                         THEN ServiceError(serviceErrors, "Error processing message:")
                         ELSE serviceErrors
     /\ req' = [req EXCEPT
          ![r].cursor = cur,
          ![r].responseSent = @ \/ chat,
          ![r].aborted = aborted,
          ![r].threw = thrown,
          ![r].pc = IF thrown THEN "finally"
                    ELSE IF cur < req[r].batchEnd THEN "batch"
                    ELSE IF aborted THEN "finally" ELSE "listen"]
     /\ UNCHANGED <<chanVars, channelAgents, agentCount, agentLog, agentQueue,
                    requestCount, deletedAgents, stopVisited, ctor, svc>>

\* The maxRunTime timer fires: abortController.abort().
Timeout(r) ==
  /\ req[r].timer /\ req[r].pc \in {"listen", "batch"} /\ ~req[r].aborted
  /\ req' = [req EXCEPT ![r].aborted = TRUE, ![r].timer = FALSE, ![r].timedOut = TRUE,
                        ![r].pc = IF @ = "listen" THEN "finally" ELSE @]
  /\ UNCHANGED <<schedVars, histVars, chanVars, notices, auxVars, channelAgents, agentCount,
                 agentLog, agentQueue, requestCount>>

\* handleAgentMessage, lines 255-259: the finally block.
Finally(r) ==
  /\ req[r].pc = "finally"
  /\ RequestFlush(req[r].channelId)
  /\ req' = [req EXCEPT ![r].pc = "done", ![r].timer = FALSE]
  /\ UNCHANGED <<chanVars, notices, auxVars, channelAgents, agentCount, agentLog, agentQueue,
                 requestCount>>

\* The correlator serving the messages of an authorised user in one channel,
\* with the agents it talks to; what the flush scheduler does with the output is
\* left out, as no step of handleAgentMessage reads it.
CorrelatorNext ==
  \/ HandleMessage("U1", "D1", "text", None, FALSE, TRUE)
  \/ \E r \in Reqs : SpawnDone(r)
  \/ \E r \in Reqs : IdleObserved(r)
  \/ \E r \in Reqs : Submit(r, FALSE)
  \/ \E r \in Reqs : NextState(r)
  \/ \E r \in Reqs, sayOk \in BOOLEAN : ProcessEvent(r, sayOk)
  \/ \E r \in Reqs : Timeout(r)
  \/ \E r \in Reqs : Finally(r)
  \/ \E a \in Agents, type \in {"output.chat", "output.info"}, message \in AgentFragments :
       AgentOutput(a, type, message)
  \/ \E a \in Agents : AgentHandled(a)

CorrelatorSpec == Init /\ [][CorrelatorNext]_vars

\* The dispatcher with calls that fail: messages of both users for the
\* destination with an allow-list, a spawnAgent or waitForState that rejects,
\* and a say() that rejects, be it of the authorization notice or of the
\* notice for an agent that handled its input without output.
DispatchNext ==
  \/ \E user \in Users, sayOk \in BOOLEAN : HandleMessage(user, "D1", "text", None, FALSE, sayOk)
  \/ \E r \in Reqs : SpawnDone(r)
  \/ \E r \in Reqs : SpawnFailed(r)
  \/ \E r \in Reqs : IdleObserved(r)
  \/ \E r \in Reqs : IdleFailed(r)
  \/ \E r \in Reqs : Submit(r, FALSE)
  \/ \E r \in Reqs : NextState(r)
  \/ \E r \in Reqs, sayOk \in BOOLEAN : ProcessEvent(r, sayOk)
  \/ \E r \in Reqs : Finally(r)
  \/ \E a \in Agents : AgentHandled(a)

DispatchSpec == Init /\ [][DispatchNext]_vars

\* One destination's requests with an agent whose handleInput may or may not
\* append an event before it returns.
CursorNext ==
  \/ HandleMessage("U1", "D1", "text", None, FALSE, TRUE)
  \/ \E r \in Reqs : SpawnDone(r)
  \/ \E r \in Reqs : IdleObserved(r)
  \/ \E r \in Reqs, echo \in BOOLEAN : Submit(r, echo)
  \/ \E r \in Reqs : NextState(r)
  \/ \E r \in Reqs : ProcessEvent(r, TRUE)
  \/ \E r \in Reqs : Finally(r)
  \/ \E a \in Agents : AgentOutput(a, "output.chat", <<"a">>)
  \/ \E a \in Agents : AgentHandled(a)

CursorSpec == Init /\ [][CursorNext]_vars

\* The router under any top-level messages, with the requests it starts up to
\* the submission of their input.
RouterNext ==
  \/ \E x \in TopLevel : HandleMessage(x[1].user, x[2], x[1].kind, x[1].thread, x[1].bot, TRUE)
  \/ \E r \in Reqs : SpawnDone(r)
  \/ \E r \in Reqs : IdleObserved(r)
  \/ \E r \in Reqs : Submit(r, FALSE)
  \/ \E a \in Agents : AgentHandled(a)

RouterSpec == Init /\ [][RouterNext]_vars

\* Shutdown while messages of an authorised user are being served, up to the
\* submission of their input; no output is recorded, so stop() has nothing to
\* flush.
TeardownNext ==
  \/ \E d \in Dests : HandleMessage("U1", d, "text", None, FALSE, TRUE)
  \/ \E r \in Reqs : SpawnDone(r)
  \/ \E r \in Reqs : IdleObserved(r)
  \/ \E r \in Reqs : Submit(r, FALSE)
  \/ \E a \in Agents : AgentHandled(a)
  \/ Stop
  \/ StopAgents

TeardownSpec == Init /\ [][TeardownNext]_vars

\* The first message of a conversation: no request was served before it.
FirstMessage ==
  /\ inboundCount = 0
  /\ HandleMessage("U1", "D1", "text", None, FALSE, TRUE)

\* One request from its message to the last flush of its output: the
\* correlator, the agent and the flush scheduler, without shutdown.
RequestNext ==
  \/ FirstMessage
  \/ \E r \in Reqs : SpawnDone(r)
  \/ \E r \in Reqs : IdleObserved(r)
  \/ \E r \in Reqs : Submit(r, FALSE)
  \/ \E r \in Reqs : NextState(r)
  \/ \E r \in Reqs, sayOk \in BOOLEAN : ProcessEvent(r, sayOk)
  \/ \E r \in Reqs : Timeout(r)
  \/ \E r \in Reqs : Finally(r)
  \/ \E a \in Agents, type \in {"output.chat", "output.info"}, message \in AgentFragments :
       AgentOutput(a, type, message)
  \/ \E a \in Agents : AgentHandled(a)
  \/ Tick
  \/ ProcessPending
  \/ CycleStep
  \/ \E outcome \in Outcomes : TransportReply("cycle", outcome)

RequestSpec == Init /\ [][RequestNext]_vars

\* An output fragment too long for one message.
LongFragment == [i \in 1..(MAX_MESSAGE_LENGTH + 1) |-> "a"]

\* One request whose agent emits short and long fragments, with the flush
\* scheduler and a transport that never fails, without shutdown.
ExitNext ==
  \/ FirstMessage
  \/ \E r \in Reqs : SpawnDone(r)
  \/ \E r \in Reqs : IdleObserved(r)
  \/ \E r \in Reqs : Submit(r, FALSE)
  \/ \E r \in Reqs : NextState(r)
  \/ \E r \in Reqs, sayOk \in BOOLEAN : ProcessEvent(r, sayOk)
  \/ \E r \in Reqs : Timeout(r)
  \/ \E r \in Reqs : Finally(r)
  \/ \E a \in Agents, message \in {<<"a">>, LongFragment} : AgentOutput(a, "output.chat", message)
  \/ \E a \in Agents : AgentHandled(a)
  \/ Tick
  \/ ProcessPending
  \/ CycleStep
  \/ TransportReply("cycle", "ok")

ExitSpec == Init /\ [][ExitNext]_vars

\* ------------------------------------------------- scheduler: the claims
RECURSIVE FinalText(_, _)
\* The final texts of the messages of destination d, concatenated in send order.
FinalText(msgs, d) ==
  IF msgs = <<>> THEN <<>>
  ELSE (IF Head(msgs).channel = d THEN Head(msgs).text ELSE <<>>) \o FinalText(Tail(msgs), d)

InFlight(p, d) == IsSome(frame[p]) /\ Get(frame[p]).channelId = d

\* d is not pending, not in a running cycle's snapshot and not being flushed.
Quiescent(d) ==
  /\ d \notin Range(pendingChannelIds)
  /\ \A p \in Procs : d \notin Range(todo[p]) /\ ~InFlight(p, d)

\* C1: once a destination is no longer pending, with every transport call for it
\* successful and no shutdown, the final texts of its messages, concatenated in
\* send order, equal the concatenation of all fragments recorded for it.
C1_AllRecordedTransmitted ==
  \A d \in Dests :
    (Quiescent(d) /\ ~failed[d] /\ pc["stop"] = "idle")
      => FinalText(messages, d) = recorded[d]

\* C5: at most one flushBuffer execution is suspended on a transport call at any
\* time, whether started by processPending or by stop().
C5_OneFlushAtATime == Cardinality({p \in Procs : pc[p] = "await"}) <= 1

\* C6: the start times of two consecutive timer-driven flush cycles differ by at
\* least SEND_INTERVAL_MS.
C6_CyclesSpaced ==
  Len(startTimes) = 2 => startTimes[2] - startTimes[1] >= SEND_INTERVAL_MS

\* Two cycles have run, the second one later than the floor.
C6_Witness ==
  Len(startTimes) = 2 /\ startTimes[2] - startTimes[1] > SEND_INTERVAL_MS

NoOpBuffer(buf) ==
  IsSome(buf) /\ (Get(buf).text = <<>> \/ Some(Get(buf).text) = Get(buf).lastSentText)

\* C7 (amended): a flush of a destination whose buffer text is empty or equal to
\* lastSentText issues no transport call and changes no buffer; in particular a
\* flush that follows a completed, successful, single-message flush of the same
\* destination, with no fragment recorded and no other flush of that
\* destination in between, issues no transport call.
C7_NoOpFlush ==
  [][lastFlush'.bit # lastFlush.bit =>
       LET d == lastFlush'.dest IN
         (NoOpBuffer(chatBuffers[d]) \/ prevFlush[d] = "okfit")
           => /\ ~lastFlush'.issued
              /\ chatBuffers' = chatBuffers
              /\ messages' = messages
              /\ callsSinceRecord' = callsSinceRecord]_vars

\* The second of two flushes with no fragment in between was a no-op.
C7_Witness ==
  \E d \in Dests :
    /\ lastFlush.dest = d /\ ~lastFlush.issued
    /\ flushesSinceRecord[d] = 2 /\ callsSinceRecord[d] = 1
    /\ prevFlush[d] = "okfit"
    /\ NoOpBuffer(chatBuffers[d])

\* C7 as stated: two flushes with no recordOutput in between produce at most
\* one transport call (here even with every call successful and no shutdown).
C7_TwoFlushesOneCall ==
  \A d \in Dests :
    (flushesSinceRecord[d] <= 2 /\ ~failed[d] /\ pc["stop"] = "idle")
      => callsSinceRecord[d] <= 1

\* C8: a flush of a text longer than MAX_MESSAGE_LENGTH sends exactly the first
\* MAX_MESSAGE_LENGTH characters (an update of the editable message if there is
\* one, else a post); when the call returns the buffer holds the remainder with
\* messageTs unset and lastSentText empty and the destination is pending again;
\* no update call issued afterwards targets the message that took the chunk,
\* and the editable message is never a sealed one, so the remainder goes out as
\* a newly posted message.
C8_OverflowSealsMessage ==
  [][/\ \A p \in Procs :
          /\ (frame[p] = None /\ frame'[p] # None) =>
               LET f == Get(frame'[p])
                   b == Get(chatBuffers[f.channelId])
               IN /\ f.kind = "update" => Get(f.ts) \notin sealed
                  /\ Len(b.text) > MAX_MESSAGE_LENGTH =>
                       /\ f.overflow
                       /\ Len(f.text) = MAX_MESSAGE_LENGTH
                       /\ f.text \o f.remaining = b.text
                       /\ f.kind = (IF IsSome(b.messageTs) THEN "update" ELSE "post")
                       /\ f.ts = b.messageTs
          /\ (frame[p] # None /\ frame'[p] = None /\ Get(frame[p]).overflow) =>
               LET f == Get(frame[p]) IN
                 /\ f.channelId \in Range(pendingChannelIds')
                 /\ ~f.detached =>
                      chatBuffers'[f.channelId] =
                        Some([text |-> f.remaining, lastSentText |-> Some(<<>>),
                              messageTs |-> None])
     /\ \A d \in Dests :
          (IsSome(chatBuffers'[d]) /\ IsSome(Get(chatBuffers'[d]).messageTs))
            => Get(Get(chatBuffers'[d]).messageTs) \notin sealed'
     /\ \A i \in 1..Len(messages) :
          (messages[i].ts \in sealed /\ messages'[i] # messages[i])
            => \E p \in Procs : IsSome(frame[p]) /\ Get(frame[p]).kind = "update"
                                /\ frame'[p] = None]_vars

\* A chunk was sealed into one message and the remainder went out as a later,
\* different message of the same destination.
C8_Witness ==
  \E i, j \in 1..Len(messages) :
    /\ i < j
    /\ messages[i].ts \in sealed /\ Len(messages[i].text) = MAX_MESSAGE_LENGTH
    /\ messages[j].channel = messages[i].channel
    /\ messages[j].ts \notin sealed
    /\ messages[i].text \o messages[j].text = recorded[messages[i].channel]

\* The running scheduler under any pattern of output fragments, flush requests,
\* transport outcomes and delays.
SchedNext ==
  \/ Tick
  \/ \E d \in Dests, content \in Fragments : HandleChatOutput(d, content)
  \/ \E d \in Dests : MarkPending(d)
  \/ ProcessPending
  \/ CycleStep
  \/ \E outcome \in Outcomes : TransportReply("cycle", outcome)

SchedSpec == Init /\ [][SchedNext]_vars

\* The scheduler of one destination with a shutdown at any moment.
ShutdownNext ==
  \/ Tick
  \/ \E content \in Fragments : HandleChatOutput("D1", content)
  \/ MarkPending("D1")
  \/ ProcessPending
  \/ CycleStep
  \/ \E p \in Procs, outcome \in Outcomes : TransportReply(p, outcome)
  \/ Stop
  \/ StopStep

ShutdownSpec == Init /\ [][ShutdownNext]_vars

\* ----------------------------------------- correlated channels: the claims
RECURSIVE IsSubseq(_, _)
\* s is t with some elements left out.
IsSubseq(s, t) ==
  IF s = <<>> THEN TRUE
  ELSE IF t = <<>> THEN FALSE
  ELSE IF Head(s) = Head(t) THEN IsSubseq(Tail(s), Tail(t))
  ELSE IsSubseq(s, Tail(t))

\* C2: every accepted reply to a message of an open channel is yielded exactly
\* once by receive(), whether the consumer was suspended in receive() when the
\* reply came or not: whenever receive() is not in the middle of waking up, the
\* replies that arrived are those already yielded followed by those still queued.
C2_EveryReplyYielded ==
  \A c \in Consumers :
    (channels[c].created /\ ~channels[c].closed /\ gen[c] # "woken")
      => arrived[c] = yielded[c] \o channels[c].queue

\* C3: receive() yields replies in arrival order, is finished only if close()
\* was called, leaves no consumer suspended once close() was called, and after
\* close() its next step finishes it without yielding.
C3_OrderedUntilClose ==
  [][\A c \in Chans :
       /\ IsSubseq(yielded'[c], arrived'[c])
       /\ gen'[c] = "done" => channels'[c].closed
       /\ channels'[c].closed => gen'[c] # "waiting"
       /\ (channels[c].closed /\ gen'[c] # gen[c])
            => (gen'[c] = "done" /\ yielded'[c] = yielded[c])]_vars

\* A consumer that was handed two replies saw the stream end after close().
C3_Witness ==
  \E c \in Consumers :
    channels[c].closed /\ gen[c] = "done" /\ Len(yielded[c]) >= 2

\* handleMessage hands a text to channel c in this step.
DeliveredTo(c) ==
  \/ Len(channels'[c].queue) > Len(channels[c].queue)
  \/ channels[c].resolve /\ ~channels'[c].resolve /\ channels'[c].closed = channels[c].closed

\* C4: a threaded reply is handed to a channel only if its thread root is, at
\* that moment, tracked under the bot's identity by that channel, in a thread
\* that channel's own send() started, and the step touches no other channel.
C4_RoutedToOwnerOnly ==
  [][\A c \in Chans : DeliveredTo(c) =>
       LET id == CHOOSE i \in DOMAIN origin' : i \notin DOMAIN origin
           root == Get(origin'[id].root)
       IN /\ DOMAIN origin' # DOMAIN origin
          /\ root \in DOMAIN userChannels /\ userChannels[root] = c
          /\ root \in channels[c].trackedMessageIds
          /\ SenderOf(root) = BotUserId
          /\ origin[root].owner = c
          /\ \A o \in Chans \ {c} : channels'[o] = channels[o] /\ gen'[o] = gen[o]]_vars

\* Two channels open on the same destination have each been handed a reply.
C4_Witness ==
  /\ channels["c1"].created /\ channels["c2"].created
  /\ channels["c1"].channelId = channels["c2"].channelId
  /\ arrived["c1"] # <<>> /\ arrived["c2"] # <<>>

\* ------------------------------------------------- correlator: the claims
\* The only request ever made got an agent whose event log is one output
\* fragment, or one output fragment followed by input.handled.
OneFragmentRun ==
  /\ inboundCount = 1 /\ agentCount = 1
  /\ Len(agentLog[1]) \in {1, 2}
  /\ agentLog[1][1].type = "output.chat"
  /\ Len(agentLog[1]) = 2 => agentLog[1][2].type = "input.handled"

\* C9: in a run with one output fragment followed by the matching
\* input.handled, and no failing transport call, at most one transport call is
\* made for the fragment, no "no response" notice is sent, and once the request
\* is over and nothing is left to flush exactly one call was made and the
\* message it posted holds the fragment.
C9_OneFragmentOneCall ==
  (OneFragmentRun /\ ~failed["D1"]) =>
    /\ callsSinceRecord["D1"] <= 1
    /\ \A i \in 1..Len(notices) : notices[i].kind # "noresponse"
    /\ (/\ req["R1"].pc = "done" /\ req["R1"].cursor = 2
        /\ pc["cycle"] = "idle" /\ Quiescent("D1"))
         => (/\ callsSinceRecord["D1"] = 1
             /\ Len(messages) = 1
             /\ messages[1].text = agentLog[1][1].message)

\* The request is over, its fragment went out in one call, and a later flush,
\* asked for on completion or by the finally block, made no call.
C9_Witness ==
  /\ OneFragmentRun /\ ~failed["D1"]
  /\ req["R1"].pc = "done" /\ req["R1"].cursor = 2
  /\ pc["cycle"] = "idle" /\ Quiescent("D1")
  /\ callsSinceRecord["D1"] = 1
  /\ flushesSinceRecord["D1"] >= 2

\* The call serving r takes, in this step, the input.handled event of its own
\* request from the event log.
HandledSeen(r) ==
  /\ req[r].pc = "batch" /\ req'[r].cursor = req[r].cursor + 1
  /\ LET ev == agentLog[req[r].agent][req[r].cursor + 1]
     IN ev.type = "input.handled" /\ ev.requestId = req[r].requestId

\* An output.chat event lies between the cursor the call serving r started
\* from and the event it is at.
OutputObserved(r) ==
  \E i \in (req[r].start + 1)..req[r].cursor :
    agentLog[req[r].agent][i].type = "output.chat"

\* C10: when a call takes the input.handled event of its own request, it sends
\* the "no response" notice if and only if it has taken no output.chat event
\* since its cursor, whatever any other call has seen.
C10_NoticeIffNoOutput ==
  [][\A r \in Reqs : HandledSeen(r) =>
       IF OutputObserved(r)
       THEN notices' = notices
       ELSE /\ Len(notices') = Len(notices) + 1
            /\ notices'[Len(notices')].kind = "noresponse"
            /\ notices'[Len(notices')].req = req[r].requestId]_vars

\* A "no response" notice went out for one request although the call serving
\* the other request had seen output.
C10_Witness ==
  \E r, q \in Reqs :
    /\ r # q /\ req[q].responseSent /\ req[q].requestId < req[r].requestId
    /\ \E i \in 1..Len(notices) :
         notices[i].kind = "noresponse" /\ notices[i].req = req[r].requestId

\* ----------------------------------------------------- router: the claims
\* The last notice sent, if the step sent one.
NoticeSent == Len(notices') = Len(notices) + 1 /\ SubSeq(notices', 1, Len(notices)) = notices
NewNotice == notices'[Len(notices')]

\* C11: a top-level message that passes the first filter, in a configured
\* destination: if the allow-list is non-empty and the sender is not on it, the
\* sender gets the authorization notice and no request is started; otherwise no
\* such notice is sent and a message with words starts a request for its
\* sender. No request ever exists for a sender the allow-list rejects.
C11_AllowListGuardsAgent ==
  [][/\ \A r \in Reqs : req'[r].pc # "free" =>
          (AllowedUsers(req'[r].channelId) = {}
             \/ req'[r].user \in AllowedUsers(req'[r].channelId))
     /\ (/\ lastTop' # lastTop
         /\ lastTop'.user # Undefined /\ lastTop'.kind # "blank" /\ ~lastTop'.bot
         /\ lastTop'.channel \in Dests)
          => LET u == lastTop'.user
                 d == lastTop'.channel
             IN IF AllowedUsers(d) # {} /\ u \notin AllowedUsers(d)
                THEN /\ NoticeSent
                     /\ NewNotice.kind = "unauthorized"
                     /\ NewNotice.channel = d /\ NewNotice.user = u
                     /\ req' = req /\ agentQueue' = agentQueue
                ELSE /\ notices' = notices
                     /\ lastTop'.kind = "text" =>
                          \E r \in Reqs : /\ req[r].pc = "free" /\ req'[r].pc # "free"
                                          /\ req'[r].user = u /\ req'[r].channelId = d]_vars

\* A sender was turned away by a non-empty allow-list, and the same sender's
\* input was submitted to the agent of a destination whose allow-list is empty.
C11_Witness ==
  /\ \E i \in 1..Len(notices) :
       /\ notices[i].kind = "unauthorized" /\ notices[i].user = "U2"
       /\ AllowedUsers(notices[i].channel) # {}
  /\ \E r \in Reqs :
       /\ req[r].pc = "listen" /\ req[r].user = "U2"
       /\ AllowedUsers(req[r].channelId) = {}

\* ------------------------------------------- agents per key: the claims
\* The handleAgentMessage calls that got their agent from
\* getOrCreateAgentForChannel.
Served == {r \in Reqs : req[r].pc \notin {"free", "spawn"}}

\* C12: every getOrCreateAgentForChannel call for a destination returns the
\* same agent, and no more agents are spawned than destinations were asked for.
C12_OneAgentPerKey ==
  /\ \A r, q \in Served : req[r].channelId = req[q].channelId => req[r].agent = req[q].agent
  /\ agentCount <= Cardinality({req[r].channelId : r \in Served})

\* C13: at the moment stop() completes, every agent spawned so far has been
\* handed to deleteAgent exactly once and channelAgents is empty.
C13_ShutdownReleasesAgents ==
  [][(pc["stop"] # "stopped" /\ pc'["stop"] = "stopped") =>
       /\ \A a \in 1..agentCount' : Len(SelectSeq(deletedAgents', LAMBDA x : x = a)) = 1
       /\ \A d \in Dests : channelAgents'[d] = None]_vars

\* ------------------------------------------- SlackService: the constructor
\* A string is a sequence of characters; an absent field is None.
TokenValues == {None, Some(<<>>), Some(<<" ">>), Some(<<" ", " ">>), Some(<<"x">>)}
Configs ==
  [botToken : TokenValues, signingSecret : TokenValues,
   appToken : {None, Some(<<"x">>)}, channelId : {None, Some(<<"x">>)},
   authorizedUserIds : {None, Some({}), Some({"U1"})},
   defaultAgentType : {None, Some(<<"x">>)}]

\* !value of JavaScript for a string that may be undefined.
Falsy(v) == v = None \/ Get(v) = <<>>

\* value || fallback
OrElse(v, fallback) == IF Falsy(v) THEN fallback ELSE Get(v)

BotTokenError == "SlackService requires a botToken."
SigningSecretError == "SlackService requires a signingSecret."

\* new SlackService(app, config): the error thrown, or the fields set.
Constructor(config) ==
  IF Falsy(config.botToken) THEN [threw |-> BotTokenError]
  ELSE IF Falsy(config.signingSecret) THEN [threw |-> SigningSecretError]
  ELSE [threw |-> "nothing",
        botToken |-> Get(config.botToken),
        signingSecret |-> Get(config.signingSecret),
        appToken |-> config.appToken,
        channelId |-> config.channelId,
        authorizedUserIds |-> IF config.authorizedUserIds = None THEN {}
                              ELSE Get(config.authorizedUserIds),
        defaultAgentType |-> OrElse(config.defaultAgentType, <<"teamLeader">>)]

\* The constructor runs on the configuration given.
Construct ==
  /\ ctor.result = NotConstructed
  /\ ctor' = [ctor EXCEPT !.result = Constructor(ctor.config)]
  /\ UNCHANGED <<schedVars, histVars, chanVars, agentVars, notices, serviceErrors,
                 deletedAgents, stopVisited, svc>>

\* Any configuration object may be passed to the constructor.
CtorInit ==
  /\ SchedInit /\ HistInit /\ ChanInit /\ AgentInit
  /\ serviceErrors = <<>> /\ deletedAgents = <<>> /\ stopVisited = {} /\ SvcInit
  /\ \E config \in Configs : ctor = [config |-> config, result |-> NotConstructed]

CtorSpec == CtorInit /\ [][Construct]_vars

\* Missing, empty, or holding nothing but blanks.
Blank(v) == v = None \/ \A i \in 1..Len(Get(v)) : Get(v)[i] = " "

\* C14: the constructor throws the botToken error when botToken is missing,
\* empty or blank, the signingSecret error when botToken is fine and
\* signingSecret is missing, empty or blank, and otherwise succeeds, whatever
\* the optional fields are.
C14_CtorRejectsBlankTokens ==
  ctor.result # NotConstructed =>
    ctor.result.threw =
      IF Blank(ctor.config.botToken) THEN BotTokenError
      ELSE IF Blank(ctor.config.signingSecret) THEN SigningSecretError
      ELSE "nothing"

\* ------------------------------------------------- the run-time limit
\* C15: a request whose maxRunTime timer fired has its subscription cancelled
\* and, by the time its call returns, a timeout notice has been sent to its
\* destination; a timer exists only for an agent with maxRunTime > 0, and only
\* such a request is ever cancelled by time.
C15_TimeoutNotifies ==
  \A r \in Reqs :
    /\ req[r].timedOut => req[r].aborted /\ HasMaxRunTime(req[r].channelId)
    /\ req[r].timer => HasMaxRunTime(req[r].channelId)
    /\ req[r].timedOut /\ req[r].pc = "done" =>
         \E i \in 1..Len(notices) :
           notices[i].kind = "timeout" /\ notices[i].channel = req[r].channelId

\* ------------------------------------------------- failures of the transport
\* C16: when the transport call of a flush fails with an error other than a
\* stale edit, the error is reported to the operator log, the caller goes on
\* with its loop, and the buffer of the destination is exactly what it was
\* before the call returned, whether the text fitted in one message or not.
C16_FailedFlushKeepsBuffer ==
  [][\A p \in Procs : TransportReply(p, "error") =>
       /\ Len(serviceErrors') = Len(serviceErrors) + 1
       /\ pc'[p] = "loop"
       /\ chatBuffers'[Get(frame[p]).channelId] = chatBuffers[Get(frame[p]).channelId]]_vars

\* The buffer holds text that differs from what its last successful call sent.
Unsent(d) ==
  /\ IsSome(chatBuffers[d])
  /\ Get(chatBuffers[d]).text # <<>>
  /\ Some(Get(chatBuffers[d]).text) # Get(chatBuffers[d]).lastSentText

\* C17: a destination for which a transport call has failed and whose buffer
\* still holds text not transmitted is pending, in the snapshot of a running
\* cycle or being flushed, so that a later cycle sends the text again without
\* any further output being recorded for it.
C17_FailedFlushRetried ==
  \A d \in Dests :
    (failed[d] /\ Unsent(d) /\ pc["stop"] = "idle") => ~Quiescent(d)

\* ------------------------------------------------- one destination at a time
\* d waits for a flush: it is in the pending set or in the snapshot of a loop.
Waiting(pending, snapshots, d) ==
  d \in Range(pending) \/ \E p \in Procs : d \in Range(snapshots[p])

\* This step starts a flushBuffer(d).
FlushStarts(d) == lastFlush'.bit # lastFlush.bit /\ lastFlush'.dest = d

\* This step is the return of the transport call of a flushBuffer(d).
FlushReturns(p, d) ==
  pc[p] = "await" /\ pc'[p] = "loop" /\ Get(frame[p]).channelId = d

\* C18: a step of flushBuffer(d), its start or the return of its call with any
\* outcome, leaves the buffer, the pending status and the correlated channels
\* of every other destination as they were; the return leaves the rest of the
\* snapshot in place and the loop running, a destination leaves the snapshot
\* only by being flushed, and the cycle ends only with its snapshot used up.
C18_FlushTouchesOneDestination ==
  [][/\ \A d \in Dests :
          (FlushStarts(d) \/ \E p \in Procs : FlushReturns(p, d)) =>
             /\ \A e \in Dests \ {d} :
                  /\ chatBuffers'[e] = chatBuffers[e]
                  /\ Waiting(pendingChannelIds', todo', e) = Waiting(pendingChannelIds, todo, e)
             /\ channels' = channels /\ userChannels' = userChannels
     /\ \A p \in Procs, d \in Dests : FlushReturns(p, d) => todo'[p] = todo[p]
     /\ todo'["cycle"] # todo["cycle"] =>
          /\ lastFlush'.bit # lastFlush.bit
          /\ <<lastFlush'.dest>> \o todo'["cycle"] =
               IF todo["cycle"] = <<>> THEN pendingChannelIds ELSE todo["cycle"]
     /\ (isProcessing /\ ~isProcessing') => todo["cycle"] = <<>>]_vars

\* In the first cycle the call for one destination failed and the flush of the
\* other destination of the snapshot is under way.
C18_Witness ==
  /\ Len(startTimes) = 1 /\ isProcessing
  /\ serviceErrors # <<>>
  /\ pc["cycle"] = "await" /\ Get(frame["cycle"]).channelId = "D2"
  /\ failed["D1"]

\* ------------------------------------------------- exceptions at the dispatcher
\* The calls of say() that failed.
FailedSays == SelectSeq(notices, LAMBDA n : ~n.ok)

\* The handleAgentMessage calls that ended with an exception other than a
\* failed say().
ThrownCalls == {r \in Reqs : req[r].threw /\ req[r].pc = "done" /\ req[r].requestId = 0}

C20_PendingAlwaysServed ==
  pendingChannelIds # <<>> => (IsSome(sendTimer) \/ isProcessing)

\* C20 (amended): in every state in which stop() is not flushing, a non-empty
\* pending set has a cycle scheduled or running; and a scheduling request made
\* while a timer is set or a cycle is running sets no timer, at any time.
C20_PendingServedOutsideStop ==
  [][/\ pc'["stop"] \notin {"await", "loop"} =>
          (pendingChannelIds' # <<>> => (IsSome(sendTimer') \/ isProcessing'))
     /\ (sendTimer' # sendTimer /\ IsSome(sendTimer')) =>
          (sendTimer = None /\ ~isProcessing')]_vars

\* stop() has returned, output recorded afterwards is pending, and a timer
\* is set for it.
C20_Witness ==
  /\ pc["stop"] = "stopped"
  /\ pendingChannelIds # <<>> /\ IsSome(sendTimer)

\* ------------------------------------------------- the waiter of a channel
\* C21: a channel has a waiter exactly while its receive() is suspended on its
\* promise, so there is never more than one, and it has none while its queue
\* holds a text; a reply accepted for it either wakes the waiter, leaving the
\* queue as it was, or is appended to the queue with no receive() woken.
C21_WaiterOrQueue ==
  [][\A c \in Chans :
       /\ channels'[c].resolve <=> gen'[c] = "waiting"
       /\ channels'[c].queue # <<>> => ~channels'[c].resolve
       /\ arrived'[c] # arrived[c] =>
            LET text == arrived'[c][Len(arrived'[c])] IN
            IF channels[c].resolve
            THEN /\ gen'[c] = "woken" /\ ~channels'[c].resolve
                 /\ channels'[c].queue = channels[c].queue
            ELSE /\ gen'[c] = gen[c]
                 /\ channels'[c].queue = Append(channels[c].queue, text)]_vars

\* One reply woke the waiter and the next, arriving before receive() ran on,
\* was put on the queue.
C21_Witness ==
  \E c \in Chans :
    /\ gen[c] = "woken" /\ ~channels[c].closed
    /\ Len(arrived[c]) = 2 /\ Len(channels[c].queue) = 1

\* ------------------------------------------------- a closed channel
\* C22: once close() of a channel has run, no message id maps to the channel in
\* userChannels, and no id of a message the channel sent or accepted has a
\* sender recorded in messageIdToBotUserId.
C22_ClosedChannelUntracked ==
  \A c \in Chans :
    channels[c].closed =>
      /\ \A id \in DOMAIN userChannels : userChannels[id] # c
      /\ \A id \in DOMAIN origin :
           origin[id].owner = c => id \notin DOMAIN messageIdToBotUserId
      /\ channels[c].trackedMessageIds = {}

\* ------------------------------------------------- cursor and submission
\* C23: the cursor of a request is captured before its input is submitted, so
\* no event that carries the request's identifier lies before the cursor.
C23_CursorBeforeSubmission ==
  \A r \in Reqs :
    req[r].requestId # 0 =>
      \A i \in 1..req[r].start : agentLog[req[r].agent][i].requestId # req[r].requestId

\* C24: an agent never has two inputs submitted and not yet handled: the second
\* input is submitted only after the first was handled.
C24_OneInputAtATime == \A a \in Agents : Len(agentQueue[a]) <= 1

\* ------------------------------------------------- the terminal event
\* The call serving r takes an event in this step.
TakesEvent(r) == req[r].pc = "batch" /\ req'[r].cursor = req[r].cursor + 1

\* The event the call serving r takes in this step.
TakenEvent(r) == agentLog[req[r].agent][req[r].cursor + 1]

\* The call serving r has processed the input.handled event of its request.
Completed(r) == req[r].aborted /\ ~req[r].timedOut

\* C25: an input.handled event of another request does not end the cycle of
\* the call that takes it, and once a call has processed the input.handled
\* event of its own request it forwards no further event, of the same batch or
\* a later one, to the buffer or as a notice.
C25_HandledIsTerminal ==
  [][\A r \in Reqs : TakesEvent(r) =>
       /\ (TakenEvent(r).type = "input.handled"
             /\ TakenEvent(r).requestId # req[r].requestId /\ ~req[r].aborted)
            => (~req'[r].aborted /\ req'[r].pc \in {"batch", "listen"})
       /\ Completed(r) => (recorded' = recorded /\ notices' = notices)]_vars

\* ------------------------------------------------- the end of a request
\* C26: when a handleAgentMessage call ends, after the completion of its
\* request, a timeout or a failed say(), its timer is cleared for good, its
\* destination is pending and a cycle is scheduled or running; and once the
\* destination is no longer pending, the cycle is over and no call has failed,
\* the messages of the destination hold all the output that was buffered for it.
C26_ExitFlushesAll ==
  [][\A r \in Reqs, d \in Dests : req[r].channelId = d =>
       /\ (req[r].pc # "done" /\ req'[r].pc = "done") =>
            /\ d \in Range(pendingChannelIds')
            /\ IsSome(sendTimer') \/ isProcessing'
       /\ req'[r].pc = "done" => ~req'[r].timer
       /\ (req'[r].pc = "done" /\ Quiescent(d)' /\ pc'["cycle"] = "idle" /\ ~failed'[d])
            => FinalText(messages', d) = recorded'[d]]_vars

\* ------------------------------------------------- discrete events
\* The events of the given type in all event logs.
RECURSIVE EventsOfType(_, _)
EventsOfType(logs, type) ==
  IF logs = <<>> THEN 0
  ELSE Len(SelectSeq(Head(logs), LAMBDA e : e.type = type)) + EventsOfType(Tail(logs), type)

\* C27: a call that takes an informational event sends it with say() in that
\* step and touches neither a buffer nor the pending set; a call that takes an
\* output fragment sends nothing and appends the fragment to the buffer; and
\* no more tagged messages are delivered than informational events were
\* emitted.
C27_InfoSentOncePerEvent ==
  [][/\ \A r \in Reqs : TakesEvent(r) =>
          /\ TakenEvent(r).type = "output.info" =>
               /\ NoticeSent /\ NewNotice.kind = "info"
               /\ chatBuffers' = chatBuffers /\ pendingChannelIds' = pendingChannelIds
          /\ TakenEvent(r).type = "output.chat" =>
               /\ notices' = notices
               /\ recorded' = [recorded EXCEPT ![req[r].channelId] = @ \o TakenEvent(r).message]
     /\ Len(SelectSeq(notices', LAMBDA n : n.kind = "info" /\ n.ok))
          <= EventsOfType(agentLog', "output.info")]_vars

\* ------------------------------------------------- replies in other threads
\* C28: a reply in a thread whose root is not a tracked message is disposed of
\* exactly like the same message posted outside any thread: unconfigured
\* destination, authorization notice, nothing but a mention, or a request to
\* the agent.
C28_UntrackedThreadLikeTopLevel ==
  \A user \in Users, d \in Conversations, kind \in {"text", "mention"}, t \in 0..tsCounter :
    LookupChannel(<<d, t>>) = None =>
      Disposition(user, d, kind, Some(t), FALSE) = Disposition(user, d, kind, None, FALSE)

\* ------------------------------------------------- accepted replies
\* The ids registered in this step.
NewIds == (DOMAIN origin') \ (DOMAIN origin)

\* C29: a reply is accepted for a channel only if its thread root maps to that
\* channel in userChannels and the sender recorded for the root is the relay's
\* own id; the accepted reply's id is then tracked by the same channel, maps to
\* it in userChannels and has the relay's id recorded as sender, so that a
\* reply threaded to it is accepted by the same test.
C29_AcceptedRepliesTracked ==
  [][\A c \in Chans : arrived'[c] # arrived[c] =>
       \E id \in NewIds :
         LET root == Get(origin'[id].root) IN
         /\ origin'[id].root # None
         /\ root \in DOMAIN userChannels /\ userChannels[root] = c
         /\ SenderOf(root) = BotUserId
         /\ id \in channels'[c].trackedMessageIds
         /\ id \in DOMAIN userChannels' /\ userChannels'[id] = c
         /\ id \in DOMAIN messageIdToBotUserId' /\ messageIdToBotUserId'[id] = BotUserId]_vars

\* A reply threaded to an accepted reply was accepted for the same channel.
C29_Witness ==
  \E id \in DOMAIN origin :
    /\ origin[id].root # None
    /\ LET root == Get(origin[id].root) IN
       /\ root \in DOMAIN origin /\ origin[root].root # None
       /\ root \in DOMAIN userChannels /\ id \in DOMAIN userChannels
       /\ userChannels[id] = userChannels[root]

\* ------------------------------------------------- stale edits
\* C30: a chat.update that fails with message_not_found is not reported to the
\* operator log, and the next flush of the destination issues no update
\* against the message the failed edit named; a chat.update that fails with
\* any other error is reported.
C30_StaleEditNotRetried ==
  [][/\ \A p \in Procs :
          /\ TransportReply(p, "message_not_found") => serviceErrors' = serviceErrors
          /\ (TransportReply(p, "error") /\ Get(frame[p]).kind = "update")
               => Len(serviceErrors') = Len(serviceErrors) + 1
     /\ \A d \in Dests, p \in Procs :
          (FlushStarts(d) /\ prevFlush[d] = "stale" /\ frame'[p] # frame[p] /\ IsSome(frame'[p]))
            => ~(Get(frame'[p]).kind = "update"
                   /\ Get(frame'[p]).ts = Get(chatBuffers[d]).messageTs)]_vars

\* --------------------------------------------------- shutdown: the claims
\* s is the beginning of t.
IsPrefix(s, t) == Len(s) <= Len(t) /\ SubSeq(t, 1, Len(s)) = s

\* stop() has cleared the buffers (line 94): its forced flush is over.
StopFlushed == pc["stop"] \in {"agents", "stopped"}

\* C31: once stop() has flushed and cleared the buffers, with no transport call
\* of the destination failed, everything recorded for a destination before
\* stop() was called has been transmitted: the final texts of its messages
\* begin with it.
C31_StopFlushesEverything ==
  StopFlushed =>
    \A d \in Dests :
      ~failed[d] => IsPrefix(recordedAtStop[d], FinalText(messages, d))

\* The agents stop() has not handed to deleteAgent; a deleted agent is taken to
\* emit nothing more.
LiveAgents == Agents \ Range(deletedAgents)

\* One request with its agent, the flush scheduler with a transport that never
\* fails, and stop() called at any moment.
HaltNext ==
  \/ FirstMessage
  \/ \E r \in Reqs : SpawnDone(r)
  \/ \E r \in Reqs : IdleObserved(r)
  \/ \E r \in Reqs : Submit(r, FALSE)
  \/ \E r \in Reqs : NextState(r)
  \/ \E r \in Reqs : ProcessEvent(r, TRUE)
  \/ \E r \in Reqs : Timeout(r)
  \/ \E r \in Reqs : Finally(r)
  \/ \E a \in LiveAgents, type \in {"output.chat", "output.info"} : AgentOutput(a, type, <<"a">>)
  \/ \E a \in LiveAgents : AgentHandled(a)
  \/ ProcessPending
  \/ CycleStep
  \/ \E p \in Procs : TransportReply(p, "ok")
  \/ Stop
  \/ StopStep
  \/ StopAgents

HaltSpec == Init /\ [][HaltNext]_vars

\* The call serving r is inside its subscription loop.
InFlightCycle(r) == req[r].pc \in {"listen", "batch"}

\* C32: once stop() has returned, every handleAgentMessage call still inside its
\* subscription has had its AbortController aborted, and no step schedules a
\* flush (sets the timer) or issues a transport call.
C32_StopCancelsCycles ==
  [][pc["stop"] = "stopped" =>
       /\ \A r \in Reqs : InFlightCycle(r) => req[r].aborted
       /\ sendTimer = None => sendTimer' = None
       /\ \A p \in Procs : frame[p] = None => frame'[p] = None]_vars

\* ------------------------------------------- the life of a buffer: the claims
\* A message that arrives when every earlier request is over.
LaterMessage ==
  /\ \A r \in Reqs : req[r].pc \in {"free", "done"}
  /\ HandleMessage("U1", "D1", "text", None, FALSE, TRUE)

\* Requests of one destination served one after the other, the agent emitting
\* output fragments, and the flush scheduler with a transport that never fails.
SequelNext ==
  \/ LaterMessage
  \/ \E r \in Reqs : SpawnDone(r)
  \/ \E r \in Reqs : IdleObserved(r)
  \/ \E r \in Reqs : Submit(r, FALSE)
  \/ \E r \in Reqs : NextState(r)
  \/ \E r \in Reqs : ProcessEvent(r, TRUE)
  \/ \E r \in Reqs : Finally(r)
  \/ \E a \in Agents : AgentOutput(a, "output.chat", <<"a">>)
  \/ \E a \in Agents : AgentHandled(a)
  \/ Tick
  \/ ProcessPending
  \/ CycleStep
  \/ TransportReply("cycle", "ok")

SequelSpec == Init /\ [][SequelNext]_vars

\* Everything recorded for d has been sent and no flush of d is due or running.
FullyFlushed(d) ==
  /\ Quiescent(d) /\ pc["cycle"] = "idle"
  /\ chatBuffers[d] = None \/ NoOpBuffer(chatBuffers[d])

\* C33: when the call serving a later request records its first output
\* fragment for a destination that is fully flushed with nothing pending, the
\* buffer then holds that fragment alone and names no message to edit, so the
\* fragment goes out as a new message.
C33_LaterRequestStartsEmpty ==
  [][\A r \in Reqs, d \in Dests :
       (/\ req[r].channelId = d /\ req[r].requestId > 1
        /\ TakesEvent(r) /\ TakenEvent(r).type = "output.chat"
        /\ ~req[r].responseSent /\ FullyFlushed(d))
         => /\ Get(chatBuffers'[d]).text = TakenEvent(r).message
            /\ Get(chatBuffers'[d]).messageTs = None]_vars

\* ------------------------------------------------------ starvation: the claims
\* A point in time seen from a clock origin moved forward by TickMs. The
\* program only compares times with now, at most SEND_INTERVAL_MS apart, so a
\* time that far in the past is left where it is.
Rebased(t) == IF t + SEND_INTERVAL_MS <= now THEN t ELSE t - TickMs

\* The clock advances without end: up to the horizon it advances as in Tick,
\* beyond it the origin of the clock is moved instead, which leaves the
\* delay scheduleSend computes and the moment a timer is due as they are (the
\* history of start times is exact up to the horizon only).
Elapse ==
  /\ IF now + TickMs <= EpochMs + HorizonMs
     THEN /\ now' = now + TickMs
          /\ UNCHANGED <<lastSendTime, sendTimer, startTimes>>
     ELSE /\ now' = now
          /\ lastSendTime' = Rebased(lastSendTime)
          /\ sendTimer' = IF sendTimer = None THEN None
                          ELSE Some([Get(sendTimer) EXCEPT !.at = Rebased(@)])
          /\ startTimes' = [i \in 1..Len(startTimes) |-> Rebased(startTimes[i])]
  /\ UNCHANGED <<chatBuffers, pendingChannelIds, isProcessing, pc, todo, frame, messages,
                 messageIdToBotUserId, tsCounter, recorded, sealed, lastFlush,
                 callsSinceRecord, flushesSinceRecord, prevFlush, failed, recordedAtStop,
                 chanVars, agentVars, notices, auxVars>>

\* The scheduler, run for ever, with output fragments for two destinations.
LiveNext ==
  \/ Elapse
  \/ \E d \in Dests, content \in Fragments : HandleChatOutput(d, content)
  \/ ProcessPending
  \/ CycleStep
  \/ TransportReply("cycle", "ok")

\* Time passes, a due timer fires, a resolved await resumes and the transport
\* answers every call.
LiveSpec ==
  /\ Init /\ [][LiveNext]_vars
  /\ WF_vars(Elapse) /\ WF_vars(ProcessPending) /\ WF_vars(CycleStep)
  /\ WF_vars(TransportReply("cycle", "ok"))

\* The cycle ends in this step.
CycleEnds == pc["cycle"] = "loop" /\ pc'["cycle"] = "idle"

\* C34: with time passing, due timers firing and the transport answering, a
\* pending destination eventually leaves the pending set, which it does only
\* by being flushed at once or by entering the snapshot of the cycle that
\* starts; a destination in the snapshot of a cycle eventually leaves it, which
\* it does only by being flushed; and a cycle that ends with destinations
\* pending leaves a cycle scheduled.
C34_NoStarvation ==
  /\ \A d \in Dests : (d \in Range(pendingChannelIds)) ~> (d \notin Range(pendingChannelIds))
  /\ \A d \in Dests : (d \in Range(todo["cycle"])) ~> (d \notin Range(todo["cycle"]))
  /\ [][\A d \in Dests :
          /\ (d \in Range(pendingChannelIds) /\ d \notin Range(pendingChannelIds'))
               => (FlushStarts(d) \/ d \in Range(todo'["cycle"]))
          /\ (d \in Range(todo["cycle"]) /\ d \notin Range(todo'["cycle"]))
               => FlushStarts(d)]_vars
  /\ [][(CycleEnds /\ pendingChannelIds' # <<>>) => IsSome(sendTimer')]_vars

\* An overflow remainder, re-marked pending by the cycle itself, went out in a
\* later cycle while the other destination was served as well.
C34_Witness ==
  /\ \E i, j \in 1..Len(messages) :
       i < j /\ messages[i].ts \in sealed /\ messages[j].channel = messages[i].channel
  /\ \E i \in 1..Len(messages) : messages[i].channel = "D2"
  /\ pendingChannelIds = <<>> /\ pc["cycle"] = "idle"

\* ------------------------------------------------------ coalescing: the claims
\* The messages of destination d.
MessagesOf(msgs, d) == SelectSeq(msgs, LAMBDA x : x.channel = d)

\* C35: when a flush cycle flushes a destination for which no more than
\* MAX_MESSAGE_LENGTH characters have been recorded in all, it issues one
\* transport call that carries the concatenation of all the fragments, or no
\* call if that text was already sent; the destination never has more than
\* one message.
C35_FragmentsCoalesced ==
  [][\A d \in Dests :
       (Len(recorded'[d]) <= MAX_MESSAGE_LENGTH)
         => /\ Len(MessagesOf(messages', d)) <= 1
            /\ FlushStarts(d) =>
                 IF chatBuffers[d] = None \/ NoOpBuffer(chatBuffers[d])
                 THEN ~lastFlush'.issued
                 ELSE /\ lastFlush'.issued
                      /\ IsSome(frame'["cycle"])
                      /\ Get(frame'["cycle"]).channelId = d
                      /\ Get(frame'["cycle"]).text = recorded[d]
                      /\ ~Get(frame'["cycle"]).overflow]_vars

\* Two fragments recorded before the first cycle went out as one message in
\* the only transport call made.
C35_Witness ==
  \E d \in Dests :
    /\ recorded[d] = <<"a", "a">>
    /\ tsCounter = 1 /\ Len(messages) = 1
    /\ messages[1].channel = d /\ messages[1].text = recorded[d]
    /\ callsSinceRecord[d] = 1 /\ flushesSinceRecord[d] = 1

\* ------------------------------------- SlackService.run: the event handlers
\* The app_mention handler and the direct-message handler of run() have the
\* same body from the authorization test on; a call is either of them.
\* this.authorizedUserIds of the running service.
AuthorizedUserIds == {"U1", "U2"}
Senders == Users \cup {"U3"}

\* The name a new handler call is given.
FreeCall == IF svc.calls["R1"].pc = "free" THEN "R1" ELSE "R2"

\* The handler up to its first await: the authorization notice, or
\* getOrCreateAgentForUser, which spawns an agent for a user that has none.
SvcMessage(user) ==
  LET authorized == ~(AuthorizedUserIds # {} /\ user \notin AuthorizedUserIds)
      r == FreeCall
  IN /\ inboundCount < MaxInbound
     /\ authorized => svc.calls[r].pc = "free"
     /\ inboundCount' = inboundCount + 1
     /\ notices' = IF authorized THEN notices
                   ELSE Append(notices, [channel |-> "DM", user |-> user,
                                         kind |-> "unauthorized", req |-> 0, ok |-> TRUE])
     /\ svc' = IF authorized
               THEN [svc EXCEPT !.calls[r] =
                       [NoCall EXCEPT !.user = user, !.agent = svc.userAgents[user],
                                      !.pc = IF svc.userAgents[user] = 0 THEN "spawn"
                                             ELSE "waitIdle"]]
               ELSE svc
     /\ UNCHANGED <<schedVars, histVars, agentVars, serviceErrors, deletedAgents,
                    stopVisited, ctor, channels, userChannels, gen, sendPc, sendCount,
                    lastTop, arrived, yielded, origin>>

\* getOrCreateAgentForUser, lines 403-412: spawnAgent resolves, the agent is
\* stored for the user, and the entry of the map is returned.
SvcSpawnDone(r) ==
  LET a == agentCount + 1
      user == svc.calls[r].user
  IN /\ svc.calls[r].pc = "spawn"
     /\ agentCount' = a
     /\ agentLog' = Append(agentLog, <<>>)
     /\ agentQueue' = Append(agentQueue, <<>>)
     /\ svc' = [svc EXCEPT !.userAgents[user] = a,
                           !.calls[r].pc = "waitIdle", !.calls[r].agent = a]
     /\ UNCHANGED <<schedVars, histVars, chanVars, notices, serviceErrors, deletedAgents,
                    stopVisited, ctor, channelAgents, req, requestCount>>

\* waitForState resolves with the agent idle: the cursor is taken, the input is
\* submitted, the subscription is made and the timeout is armed (run(), lines
\* 277-311 and 330-364), all without an await; the agents have maxRunTime > 0.
SvcSubmit(r) ==
  LET a == svc.calls[r].agent
      id == requestCount + 1
  IN /\ svc.calls[r].pc = "waitIdle" /\ Idle(a)
     /\ requestCount' = id
     /\ agentQueue' = [agentQueue EXCEPT ![a] = Append(@, id)]
     /\ svc' = [svc EXCEPT !.calls[r].pc = "subscribed", !.calls[r].requestId = id,
                           !.calls[r].cursor = Len(agentLog[a]),
                           !.calls[r].subscribed = TRUE,
                           !.calls[r].timer = TRUE]
     /\ UNCHANGED <<schedVars, histVars, chanVars, notices, serviceErrors, deletedAgents,
                    stopVisited, ctor, channelAgents, agentCount, agentLog, req>>

\* run(), lines 296 and 349: if (!this.lastResponseSent)
NoResponse(flag, sawOwn) == ~flag

\* run(), lines 306-311 and 359-364: the timeout callback says its notice
\* whatever happened to the request.
TimeoutSays(call) == TRUE

\* The subscription callback of the call with request id, lines 283-303: the
\* loop over the events after the cursor. st holds lastResponseSent, the
\* notices said so far, whether the call has seen output.chat of its own
\* request and whether it has taken its input.handled; unsubscribe() does not
\* leave the loop.
RECURSIVE SvcEvents(_, _, _, _)
SvcEvents(events, id, user, st) ==
  IF events = <<>> THEN st
  ELSE LET ev == Head(events)
           said(kind) == Append(st.said, [channel |-> "DM", user |-> user, kind |-> kind,
                                          req |-> id, ok |-> TRUE])
           next ==
             IF ev.type = "output.chat"
             THEN [st EXCEPT !.lastResponseSent = TRUE, !.said = said("chat"),
                             !.sawOwn = @ \/ ev.requestId = id]
             ELSE IF ev.type = "input.handled" /\ ev.requestId = id
             THEN [st EXCEPT !.handled = TRUE,
                             !.said = IF NoResponse(st.lastResponseSent, st.sawOwn)
                                      THEN said("noresponse") ELSE @]
             ELSE st
       IN SvcEvents(Tail(events), id, user, next)

\* The agent's state changed and the subscription callback of call r runs.
SvcCallback(r) ==
  LET call == svc.calls[r]
      log == agentLog[call.agent]
      st == SvcEvents(SubSeq(log, call.cursor + 1, Len(log)), call.requestId, call.user,
                      [lastResponseSent |-> svc.lastResponseSent, said |-> <<>>,
                       sawOwn |-> \E i \in 1..call.cursor :
                                    log[i].type = "output.chat"
                                      /\ log[i].requestId = call.requestId,
                       handled |-> FALSE])
  IN /\ call.subscribed /\ call.cursor < Len(log)
     /\ notices' = notices \o st.said
     /\ svc' = [svc EXCEPT !.lastResponseSent = st.lastResponseSent,
                           !.calls[r].cursor = Len(log),
                           !.calls[r].handled = st.handled,
                           !.calls[r].subscribed = ~st.handled,
                           !.calls[r].pc = IF st.handled THEN "done" ELSE @]
     /\ UNCHANGED <<schedVars, histVars, chanVars, agentVars, serviceErrors, deletedAgents,
                    stopVisited, ctor>>

\* The timer armed for call r fires: unsubscribe(), then the timeout notice.
SvcTimeout(r) ==
  LET call == svc.calls[r]
  IN /\ call.timer
     /\ notices' = IF TimeoutSays(call)
                   THEN Append(notices, [channel |-> "DM", user |-> call.user,
                                         kind |-> "timeout", req |-> call.requestId,
                                         ok |-> TRUE])
                   ELSE notices
     /\ svc' = [svc EXCEPT !.calls[r].timer = FALSE, !.calls[r].subscribed = FALSE,
                           !.calls[r].pc = "done"]
     /\ UNCHANGED <<schedVars, histVars, chanVars, agentVars, serviceErrors, deletedAgents,
                    stopVisited, ctor>>

\* The running service with messages of any sender, agents that emit output
\* fragments and finish their requests, and timers that fire at any time.
ServiceNext ==
  \/ \E user \in Senders : SvcMessage(user)
  \/ \E r \in Reqs : SvcSpawnDone(r)
  \/ \E r \in Reqs : SvcSubmit(r)
  \/ \E r \in Reqs : SvcCallback(r)
  \/ \E r \in Reqs : SvcTimeout(r)
  \/ \E a \in Agents : AgentOutput(a, "output.chat", <<"a">>)
  \/ \E a \in Agents : AgentHandled(a)

ServiceSpec == Init /\ [][ServiceNext]_vars

\* The notices of the given kind said for request id.
NoticesFor(kind, id) == SelectSeq(notices, LAMBDA n : n.kind = kind /\ n.req = id)

\* C36: a request of the service whose input.handled was taken by its call,
\* with no output.chat event of its own in the event log, has had the
\* "No response received from agent." notice said for it.
C36_ServiceNoResponseNotice ==
  \A r \in Reqs :
    LET call == svc.calls[r] IN
      (call.handled
         /\ ~\E i \in 1..Len(agentLog[call.agent]) :
               agentLog[call.agent][i].type = "output.chat"
                 /\ agentLog[call.agent][i].requestId = call.requestId)
        => NoticesFor("noresponse", call.requestId) # <<>>

\* C37: the timeout notice is said only for a request whose input.handled has
\* not been taken by its call.
C37_ServiceTimeoutOnlyIfUnfinished ==
  [][\A r \in Reqs :
       Len(NoticesFor("timeout", svc.calls[r].requestId)')
           > Len(NoticesFor("timeout", svc.calls[r].requestId))
         => ~svc.calls[r].handled]_vars

\* ------------------------------------------------ router tables: the claims
\* C38: every id in userChannels maps to a channel whose trackedMessageIds
\* holds it, every id in the trackedMessageIds of an open channel is a key of
\* userChannels that maps to that channel, and every key of userChannels has
\* an entry in messageIdToBotUserId.
C38_RouterTablesConsistent ==
  /\ \A id \in DOMAIN userChannels : id \in channels[userChannels[id]].trackedMessageIds
  /\ \A c \in Chans :
       (channels[c].created /\ ~channels[c].closed) =>
         \A id \in channels[c].trackedMessageIds :
           id \in DOMAIN userChannels /\ userChannels[id] = c
  /\ \A id \in DOMAIN userChannels : id \in DOMAIN messageIdToBotUserId

\* One channel was closed after it had tracked a message of its own and an
\* accepted reply, while the other channel still tracks a message.
C38_Witness ==
  \E c, o \in Chans :
    /\ c # o
    /\ channels[c].closed /\ channels[c].trackedMessageIds = {} /\ arrived[c] # <<>>
    /\ channels[o].created /\ ~channels[o].closed /\ channels[o].trackedMessageIds # {}

\* ------------------------------------------ the two subscriptions of start()
\* start() registers handleMessage twice, for message events and for
\* app_mention events (lines 53-67); the transport hands a message that
\* mentions the bot to both. HandleMessage above is the call made for the
\* message event; the two actions below are the call made for the app_mention
\* event of a message the message subscription has already handled.

\* How often the text ts was accepted for a channel.
Arrivals(ts) ==
  Cardinality({<<c, i>> \in Chans \X (1..(2 * MaxInbound)) :
                 i <= Len(arrived[c]) /\ arrived[c][i] = ts})

\* handleMessage for the app_mention event of the top-level message that
\* started request r.
MentionOfRequest(r) ==
  LET user == req[r].user
      d == req[r].channelId
  IN /\ req[r].pc # "free"
     /\ \A q \in Reqs \ {r} : req[q].pc = "free" \/ req[q].msg # req[r].msg
     /\ Disposition(user, d, "text", None, FALSE) = "agent"
     /\ \E q \in Reqs : req[q].pc = "free"
     /\ BeginAgentMessageFor(FreeReq, user, d, req[r].msg)
     /\ UNCHANGED <<schedVars, histVars, chanVars, notices, auxVars, channelAgents,
                    agentCount, agentLog, agentQueue, requestCount>>

\* handleMessage for the app_mention event of the accepted reply id.
MentionOfReply(id) ==
  LET root == Get(origin[id].root)
      what == Disposition("U1", id[1], "text", Some(root[2]), FALSE)
  IN /\ origin[id].root # None
     /\ Arrivals(id[2]) = 1
     /\ what = "delivered"
     /\ Deliver(Get(LookupChannel(root)), id, root, id[2])
     /\ UNCHANGED <<now, flushVars, tsCounter, histVars, agentVars, notices, auxVars,
                    sendPc, sendCount, inboundCount, lastTop, yielded>>

\* One channel and one destination, with every message that is handled for its
\* message event handled once more for its app_mention event.
DualNext ==
  \/ CreateChannel("c1", "D1")
  \/ Send("c1")
  \/ SendReply("c1", "ok")
  \/ \E th \in {None} \cup {Some(t) : t \in 1..tsCounter} :
       HandleMessage("U1", "D1", "text", th, FALSE, TRUE)
  \/ \E r \in Reqs : MentionOfRequest(r)
  \/ \E id \in DOMAIN origin : MentionOfReply(id)
  \/ \E r \in Reqs : SpawnDone(r)
  \/ \E r \in Reqs : IdleObserved(r)

DualSpec == Init /\ [][DualNext]_vars

\* C39: no two handleAgentMessage calls serve the same inbound message, and no
\* reply text is accepted for a correlated channel more than once.
C39_OneRoutingActionPerMessage ==
  /\ \A r, q \in Reqs :
       (r # q /\ req[r].pc # "free" /\ req[q].pc # "free") => req[r].msg # req[q].msg
  /\ \A id \in DOMAIN origin : Arrivals(id[2]) <= 1

\* ------------------------------------------- replies and the allow-list
\* A channel on the destination whose allow-list does not name U2, and
\* messages of U2 only: replies in any thread and messages outside threads.
OutsiderNext ==
  \/ CreateChannel("c1", "D1")
  \/ Send("c1")
  \/ \E outcome \in {"ok", "error"} : SendReply("c1", outcome)
  \/ Receive("c1")
  \/ Resume("c1")
  \/ Close("c1")
  \/ \E kind \in {"text", "mention"}, th \in {None} \cup {Some(t) : t \in 1..tsCounter} :
       HandleMessage("U2", "D1", kind, th, FALSE, TRUE)

OutsiderSpec == Init /\ [][OutsiderNext]_vars

\* C40: a reply of U2, who is not on the non-empty allow-list of D1, in a
\* thread whose root is tracked is handed to the channel that tracks the root,
\* and no notice is sent for it.
C40_RepliesBypassAllowList ==
  [][\A t \in 1..tsCounter, kind \in {"text", "mention"} :
       (/\ <<"D1", t>> \in DOMAIN userChannels
        /\ HandleMessage("U2", "D1", kind, Some(t), FALSE, TRUE))
         => LET c == userChannels[<<"D1", t>>]
            IN /\ "U2" \notin AllowedUsers("D1") /\ AllowedUsers("D1") # {}
               /\ arrived'[c] = Append(arrived[c], tsCounter + 1)
               /\ DeliveredTo(c)
               /\ notices' = notices]_vars

\* The consumer was yielded a reply of U2, and a message U2 posted outside any
\* thread was answered with the authorization notice.
C40_Witness ==
  /\ yielded["c1"] # <<>>
  /\ \E i \in 1..Len(notices) : notices[i].kind = "unauthorized" /\ notices[i].user = "U2"
====
